---- MODULE Spec2Model ----
(***************************************************************************)
(* Model of the confidential-transfer engine of teegeepay                  *)
(* (crates/api): the balance reconciler, the five-phase proof pipeline of  *)
(* a confidential transfer, the deposit handler, and the partial signer.   *)
(*                                                                         *)
(* The chain is modelled by the token-account fields the engine reads and  *)
(* writes (public balance, pending balance, available balance, the         *)
(* AE-encrypted "decryptable available balance") and by the three proof    *)
(* context accounts of a transfer.  Every RPC call is one step; a          *)
(* send_and_confirm of a pipeline phase is two steps (submit, then confirm *)
(* or fail) so that submission order and confirmation are observable.      *)
(***************************************************************************)
EXTENDS Integers, Sequences, FiniteSets, TLC

\* ------------------------------------------------------------------------
\* Bounds and domains
\* ------------------------------------------------------------------------

\* Total number of 50-token lots that may ever be minted.
MaxSupplyLots == 2

\* Longest signatures vector a transaction starts with (partial signer).
MaxSigs == 3

Parties == {"O", "R"}

\* Raw token amounts of requests and mints.
Amounts == {50, 100}

ProofKinds == {"equality", "ciphertext_validity", "range"}

StatusOk == 200

StatusBadRequest == 400

StatusInternalServerError == 500

ZkProofProgram == "ZkElGamalProof"

NoAuthority == "none"

VARIABLES
    publicBalance,         \* [Parties -> Nat]  base token amount of the ATA
    pendingBalance,        \* [Parties -> Nat]  pending_balance_lo/hi, decrypted
    availableBalance,      \* [Parties -> Nat]  available_balance ciphertext, decrypted
    decryptableAvailable,  \* [Parties -> Nat]  decryptable_available_balance (AE)
    proofAccounts,         \* [Parties -> [ProofKinds -> account]] of the party's transfer
    op,                    \* [Parties -> record] the request running for the party
    submitted,             \* [Parties -> Seq] phase transactions handed to the RPC
    response,              \* [Parties -> record] HTTP answer of the last request
    scenario,              \* driver of the scripted round trip
    txMessage,             \* partial signer: the transaction's message
    txSignatures,          \* partial signer: the transaction's signatures vector
    signResult,            \* partial signer: result of the last partial_sign
    users,                 \* database: Seq of rows of table users (id = index)
    wallets,               \* database: Seq of rows of table wallets (id = index)
    req,                   \* database: [Requests -> record] requests against the database
    call,                  \* handlers: the last wallet-scoped call and its answer
    derivation,            \* key derivation: the last derivation and its keys
    built,                 \* builders: the last instruction batch built
    pipe,                  \* pipelines: the transactions of one mint, transfer or withdraw
    race,                  \* apply race: one token account and two operations on it
    cancelled              \* engine: parties whose transfer request was dropped

chainVars == <<publicBalance, pendingBalance, availableBalance, decryptableAvailable,
               proofAccounts>>

engineVars == <<op, submitted, response>>

signVars == <<txMessage, txSignatures, signResult>>

dbVars == <<users, wallets, req>>

vars == <<publicBalance, pendingBalance, availableBalance, decryptableAvailable,
          proofAccounts, op, submitted, response, scenario,
          txMessage, txSignatures, signResult, users, wallets, req, call, derivation, built,
          pipe, race, cancelled>>

\* ------------------------------------------------------------------------
\* Records
\* ------------------------------------------------------------------------

NoAccount == [exists |-> FALSE, owner |-> "none", authority |-> NoAuthority,
              verified |-> FALSE]

NoProofAccounts == [k \in ProofKinds |-> NoAccount]

IdleOp == [pc |-> "idle", kind |-> "none", amount |-> 0, recipient |-> "none",
           available_balance |-> 0, pending_balance |-> 0, deposit_amount |-> 0,
           new_decryptable |-> 0, info |-> [available |-> 0, decryptable |-> 0],
           phase |-> 0, signatures |-> <<>>, reconcile |-> <<>>]

NoDetail == [available |-> 0, pending |-> 0, required |-> 0]

NoResponse == [kind |-> "none", status |-> 0, error |-> "none", detail |-> NoDetail,
               transactions |-> <<>>]

TotalTokens ==
    LET S(f) == f["O"] + f["R"]
    IN  S(publicBalance) + S(pendingBalance) + S(availableBalance)


\* ------------------------------------------------------------------------
\* Pure helpers of the engine
\* ------------------------------------------------------------------------

Range(seq) == {seq[i] : i \in DOMAIN seq}

Min(a, b) == IF a <= b THEN a ELSE b

\* u64::saturating_sub
SaturatingSub(a, b) == IF a >= b THEN a - b ELSE 0

\* The signature send_and_confirm_transaction returns for a transaction:
\* the fee payer's signature over that transaction.
Sig(payer, tx) == [signer |-> payer, tx |-> tx]

\* Mutant: the two verify transactions are sent in the other order.
TransferPhases_VerifySwapped == <<"A", "C", "B", "D", "E">>

\* The order in which invoke_confidential_transfer submits its transactions:
\* tx1 (allocate), tx2 (verify range), tx3 (verify equality and
\* ciphertext validity), the transfer, the close.
TransferPhases == <<"A", "B", "C", "D", "E">>

TRANSFER_TRANSACTION_LABELS ==
    << "Create Proof Accounts",
       "Verify Proof Accounts: Range",
       "Verify Proof Accounts: Equality, Ciphertext",
       "Transfer",
       "Close Proof Accounts" >>

\* Mutant: the close signature is returned before the transfer signature.
ResultSignatures_CloseFirst(sigs) == <<sigs[1], sigs[2], sigs[3], sigs[5], sigs[4]>>

\* Ok(vec![signature_1, signature_2, signature_3, transfer_signature, signature_4])
ResultSignatures(sigs) == <<sigs[1], sigs[2], sigs[3], sigs[4], sigs[5]>>

\* labels.iter().zip(signatures.iter()): as long as the shorter of the two.
format_transfer_results(transfer_signatures) ==
    [i \in 1..Min(Len(TRANSFER_TRANSACTION_LABELS), Len(transfer_signatures)) |->
        [label |-> TRANSFER_TRANSACTION_LABELS[i],
         signature |-> transfer_signatures[i]]]

\* execute_transfer maps every error of invoke_confidential_transfer to
\* AppError::internal_server_error.
TransferErrorResponse(error, detail) ==
    [kind |-> "transfer", status |-> StatusInternalServerError, error |-> error,
     detail |-> detail, transactions |-> <<>>]

TransferOkResponse(sigs) ==
    [kind |-> "transfer", status |-> StatusOk, error |-> "none", detail |-> NoDetail,
     transactions |-> format_transfer_results(sigs)]

\* The deposit handler turns anyhow errors into AppError via From (500).
DepositErrorResponse(status, error) ==
    [kind |-> "deposit", status |-> status, error |-> error, detail |-> NoDetail,
     transactions |-> <<>>]

DepositOkResponse(payer) ==
    [kind |-> "deposit", status |-> StatusOk, error |-> "none", detail |-> NoDetail,
     transactions |-> << [label |-> "Deposit", signature |-> Sig(payer, "deposit")],
                         [label |-> "Apply Pending Balance",
                          signature |-> Sig(payer, "apply")] >>]

\* Mutant: the balance is not compared again after the apply.
SufficientAfterApply_Unchecked(available_after, amount) == TRUE

\* The second read of ensure_confidential_balance: available_after >= amount.
SufficientAfterApply(available_after, amount) == available_after >= amount

\* The authority named in the verify instructions (context_state_authority = &sender).
ContextStateAuthority(sender) == sender

\* create_account(fee_payer, account, rent, space, &zk_elgamal_proof_program::id()):
\* the new account belongs to the proof program; no authority is recorded yet.
AllocatedAccount ==
    [exists |-> TRUE, owner |-> ZkProofProgram, authority |-> NoAuthority,
     verified |-> FALSE]

\* encode_verify_proof(Some(context_state_info), proof_data) on an allocated account.
VerifiedAccount(acct, authority) ==
    [acct EXCEPT !.verified = TRUE, !.authority = authority]

\* close_context_state(ContextStateInfo{account, authority}, destination) is
\* accepted for a verified account whose recorded authority signs.
ClosableBy(acct, signer) ==
    acct.exists /\ acct.owner = ZkProofProgram /\ acct.verified /\ acct.authority = signer

\* ------------------------------------------------------------------------
\* Ending a request
\* ------------------------------------------------------------------------

Finish(p, resp) ==
    /\ op' = [op EXCEPT ![p] = IdleOp]
    /\ response' = [response EXCEPT ![p] = resp]

\* ------------------------------------------------------------------------
\* Minting (standard mint_to into the public balance)
\* ------------------------------------------------------------------------

MintTo(p, a) ==
    /\ TotalTokens + a <= 50 * MaxSupplyLots
    /\ publicBalance' = [publicBalance EXCEPT ![p] = @ + a]
    /\ UNCHANGED <<pendingBalance, availableBalance, decryptableAvailable, proofAccounts>>
    /\ UNCHANGED engineVars

\* ------------------------------------------------------------------------
\* Balance reconciler: ensure_confidential_balance
\* ------------------------------------------------------------------------

StartTransfer(p, r, amt) ==
    /\ op[p].pc = "idle"
    /\ r # p
    /\ op' = [op EXCEPT ![p] = [IdleOp EXCEPT !.pc = "ensure_read", !.kind = "transfer",
                                              !.amount = amt, !.recipient = r]]
    /\ response' = [response EXCEPT ![p] = NoResponse]
    /\ submitted' = [submitted EXCEPT ![p] = <<>>]
    /\ proofAccounts' = [proofAccounts EXCEPT ![p] = NoProofAccounts]
    /\ UNCHANGED <<publicBalance, pendingBalance, availableBalance, decryptableAvailable>>

\* A transaction the reconciler submits, with the balances its first read
\* returned and the amount required.
ReconcileTx(p, tx, amount) ==
    [tx |-> tx, amount |-> amount, available |-> op[p].available_balance,
     pending |-> op[p].pending_balance, required |-> op[p].amount]

\* Mutant: the deposit is sent whatever the pending balance is.
EnsureRead_AlwaysDeposits(p) ==
    /\ op[p].pc = "ensure_read"
    /\ LET pending_balance == pendingBalance[p]
           available_balance == decryptableAvailable[p]
           amount == op[p].amount
           deposit_amount == SaturatingSub(amount, available_balance)
           next_pc == IF available_balance >= amount THEN "prepare" ELSE "deposit"
       IN  op' = [op EXCEPT ![p].pc = next_pc,
                            ![p].available_balance = available_balance,
                            ![p].pending_balance = pending_balance,
                            ![p].deposit_amount = deposit_amount]
    /\ UNCHANGED <<submitted, response>>
    /\ UNCHANGED chainVars

\* get_confidential_balances, then the branch on the balances read.
EnsureRead(p) ==
    /\ op[p].pc = "ensure_read"
    /\ LET pending_balance == pendingBalance[p]
           available_balance == decryptableAvailable[p]
           amount == op[p].amount
           deposit_amount == SaturatingSub(amount, available_balance)
           next_pc == IF available_balance >= amount THEN "prepare"
                      ELSE IF pending_balance = 0
                           THEN (IF deposit_amount = 0 THEN "prepare" ELSE "deposit")
                           ELSE "apply_build"
       IN  op' = [op EXCEPT ![p].pc = next_pc,
                            ![p].available_balance = available_balance,
                            ![p].pending_balance = pending_balance,
                            ![p].deposit_amount = deposit_amount]
    /\ UNCHANGED <<submitted, response>>
    /\ UNCHANGED chainVars

\* send_and_confirm of the deposit transaction: the token program moves
\* deposit_amount from the public to the pending balance, or rejects it.
EnsureDeposit(p) ==
    /\ op[p].pc = "deposit"
    /\ IF publicBalance[p] >= op[p].deposit_amount
       THEN /\ publicBalance' = [publicBalance EXCEPT ![p] = @ - op[p].deposit_amount]
            /\ pendingBalance' = [pendingBalance EXCEPT ![p] = @ + op[p].deposit_amount]
            /\ op' = [op EXCEPT ![p].pc = "apply_build",
                                ![p].reconcile =
                                    Append(@, ReconcileTx(p, "deposit",
                                                          op[p].deposit_amount))]
            /\ UNCHANGED response
       ELSE /\ Finish(p, TransferErrorResponse("TransactionRejected", NoDetail))
            /\ UNCHANGED <<publicBalance, pendingBalance>>
    /\ UNCHANGED <<availableBalance, decryptableAvailable, proofAccounts, submitted>>

\* Mutant: the pending amount is not added to the new decryptable balance.
NewDecryptableAvailable_DropsPending(p) == decryptableAvailable[p]

\* apply_pending_balance_with_keys: one read of the account gives the new
\* decryptable available balance (available + pending, both decrypted).
NewDecryptableAvailable(p) == decryptableAvailable[p] + pendingBalance[p]

\* The token program applies the pending balance it holds at execution time
\* and stores the decryptable balance the instruction carries.
ApplyOnChain(p, new_decryptable) ==
    /\ availableBalance' = [availableBalance EXCEPT ![p] = @ + pendingBalance[p]]
    /\ pendingBalance' = [pendingBalance EXCEPT ![p] = 0]
    /\ decryptableAvailable' = [decryptableAvailable EXCEPT ![p] = new_decryptable]

EnsureApplyBuild(p) ==
    /\ op[p].pc = "apply_build"
    /\ op' = [op EXCEPT ![p].pc = "apply_send",
                        ![p].new_decryptable = NewDecryptableAvailable(p)]
    /\ UNCHANGED <<submitted, response>>
    /\ UNCHANGED chainVars

EnsureApplySend(p) ==
    /\ op[p].pc = "apply_send"
    /\ ApplyOnChain(p, op[p].new_decryptable)
    /\ op' = [op EXCEPT ![p].pc = "ensure_reread",
                        ![p].reconcile = Append(@, ReconcileTx(p, "apply", 0))]
    /\ UNCHANGED <<publicBalance, proofAccounts, submitted, response>>

\* The second get_confidential_balances and the final comparison.
EnsureReread(p) ==
    /\ op[p].pc = "ensure_reread"
    /\ LET pending_after == pendingBalance[p]
           available_after == decryptableAvailable[p]
       IN  IF SufficientAfterApply(available_after, op[p].amount)
           THEN /\ op' = [op EXCEPT ![p].pc = "prepare",
                                    ![p].available_balance = available_after,
                                    ![p].pending_balance = pending_after]
                /\ UNCHANGED response
           ELSE Finish(p, TransferErrorResponse("InsufficientConfidentialBalance",
                            [available |-> available_after, pending |-> pending_after,
                             required |-> op[p].amount]))
    /\ UNCHANGED submitted
    /\ UNCHANGED chainVars


\* ------------------------------------------------------------------------
\* Proof pipeline: execute_proof_transactions_with_keys, then the five
\* transactions of invoke_confidential_transfer
\* ------------------------------------------------------------------------

\* Mutant: tx1 is sent as soon as the context accounts' keypairs exist,
\* before the proofs are generated.
PrepareProofs_AllocatesFirst(p) ==
    /\ op[p].pc = "prepare"
    /\ IF decryptableAvailable[p] < op[p].amount
       THEN Finish(p, TransferErrorResponse("ProofGenerationFailed", NoDetail))
       ELSE /\ op' = [op EXCEPT ![p].pc = "phase_send", ![p].phase = 1,
                                ![p].info = [available |-> availableBalance[p],
                                             decryptable |-> decryptableAvailable[p]]]
            /\ UNCHANGED response
    /\ proofAccounts' = [proofAccounts EXCEPT ![p] =
                             [k \in ProofKinds |-> AllocatedAccount]]
    /\ UNCHANGED submitted
    /\ UNCHANGED <<publicBalance, pendingBalance, availableBalance, decryptableAvailable>>

\* Reads the sender's account (TransferAccountInfo snapshot), generates the
\* three proofs from it and builds and signs tx1..tx3.  Nothing is submitted.
\* generate_split_transfer_proof_data fails when the decrypted available
\* balance of the snapshot is below the amount.
PrepareProofs(p) ==
    /\ op[p].pc = "prepare"
    /\ IF decryptableAvailable[p] < op[p].amount
       THEN Finish(p, TransferErrorResponse("ProofGenerationFailed", NoDetail))
       ELSE /\ op' = [op EXCEPT ![p].pc = "phase_send", ![p].phase = 1,
                                ![p].info = [available |-> availableBalance[p],
                                             decryptable |-> decryptableAvailable[p]]]
            /\ UNCHANGED response
    /\ UNCHANGED submitted
    /\ UNCHANGED chainVars

\* rpc_client.send_and_confirm_transaction(..) / the token client's transfer:
\* the phase's transaction is handed to the RPC.
SubmitPhase(p) ==
    /\ op[p].pc = "phase_send"
    /\ submitted' = [submitted EXCEPT ![p] = Append(@, TransferPhases[op[p].phase])]
    /\ op' = [op EXCEPT ![p].pc = "phase_wait"]
    /\ UNCHANGED response
    /\ UNCHANGED chainVars

\* What the chain requires of a phase's transaction when it executes it.
PhaseAccepted(p, ph) ==
    LET accts == proofAccounts[p]
        me == op[p]
    IN  CASE ph = "A" -> \A k \in ProofKinds : ~accts[k].exists
          [] ph = "B" -> accts["range"].exists /\ ~accts["range"].verified
          [] ph = "C" -> /\ accts["equality"].exists /\ ~accts["equality"].verified
                         /\ accts["ciphertext_validity"].exists
                         /\ ~accts["ciphertext_validity"].verified
                         \* the equality proof was generated from the decryptable
                         \* balance; it verifies only if that is the true balance
                         /\ me.info.decryptable = me.info.available
          [] ph = "D" -> /\ \A k \in ProofKinds : accts[k].exists /\ accts[k].verified
                         /\ availableBalance[p] = me.info.available
          [] ph = "E" -> \A k \in ProofKinds : ClosableBy(accts[k], p)

\* The effect of a phase's transaction on the chain.
PhaseEffect(p, ph) ==
    LET accts == proofAccounts[p]
        me == op[p]
        auth == ContextStateAuthority(p)
    IN  CASE ph = "A" ->
               /\ proofAccounts' = [proofAccounts EXCEPT ![p] =
                                        [k \in ProofKinds |-> AllocatedAccount]]
               /\ UNCHANGED <<publicBalance, pendingBalance, availableBalance,
                              decryptableAvailable>>
          [] ph = "B" ->
               /\ proofAccounts' = [proofAccounts EXCEPT ![p]["range"] =
                                        VerifiedAccount(@, auth)]
               /\ UNCHANGED <<publicBalance, pendingBalance, availableBalance,
                              decryptableAvailable>>
          [] ph = "C" ->
               /\ proofAccounts' = [proofAccounts EXCEPT
                                        ![p]["equality"] = VerifiedAccount(@, auth),
                                        ![p]["ciphertext_validity"] =
                                            VerifiedAccount(@, auth)]
               /\ UNCHANGED <<publicBalance, pendingBalance, availableBalance,
                              decryptableAvailable>>
          [] ph = "D" ->
               /\ availableBalance' = [availableBalance EXCEPT ![p] = @ - me.amount]
               /\ decryptableAvailable' = [decryptableAvailable EXCEPT ![p] =
                                               me.info.decryptable - me.amount]
               /\ pendingBalance' = [pendingBalance EXCEPT ![me.recipient] =
                                         @ + me.amount]
               /\ UNCHANGED <<publicBalance, proofAccounts>>
          [] ph = "E" ->
               /\ proofAccounts' = [proofAccounts EXCEPT ![p] = NoProofAccounts]
               /\ UNCHANGED <<publicBalance, pendingBalance, availableBalance,
                              decryptableAvailable>>

\* The submitted transaction is confirmed: its signature is kept and the next
\* phase follows; after the close transaction the five signatures are returned.
ConfirmPhase(p) ==
    /\ op[p].pc = "phase_wait"
    /\ LET ph == TransferPhases[op[p].phase]
           sigs == Append(op[p].signatures, Sig(p, ph))
       IN  /\ PhaseAccepted(p, ph)
           /\ PhaseEffect(p, ph)
           /\ IF op[p].phase = Len(TransferPhases)
              THEN Finish(p, TransferOkResponse(ResultSignatures(sigs)))
              ELSE /\ op' = [op EXCEPT ![p].pc = "phase_send", ![p].phase = @ + 1,
                                       ![p].signatures = sigs]
                   /\ UNCHANGED response
    /\ UNCHANGED submitted

\* The chain rejects the submitted transaction: send_and_confirm returns an
\* error and `?` returns it from invoke_confidential_transfer at once.
RejectPhase(p) ==
    /\ op[p].pc = "phase_wait"
    /\ ~PhaseAccepted(p, TransferPhases[op[p].phase])
    /\ Finish(p, TransferErrorResponse("TransactionRejected", NoDetail))
    /\ UNCHANGED submitted
    /\ UNCHANGED chainVars

\* Any RPC call of a transfer may fail in transport; every call site
\* propagates the error with `?`.  tx1..tx3 are built before they are sent,
\* so before their submission there is no RPC call left that could fail.
TransferRpcPoint(o) ==
    /\ o.kind = "transfer"
    /\ o.pc # "idle"
    /\ (o.pc = "phase_send" => o.phase >= 4)

TransferRpcFailure(p) ==
    /\ TransferRpcPoint(op[p])
    /\ Finish(p, TransferErrorResponse("RpcTransport", NoDetail))
    /\ UNCHANGED submitted
    /\ UNCHANGED chainVars

\* ------------------------------------------------------------------------
\* Deposit handler: POST /wallets/{addr}/deposit
\* ------------------------------------------------------------------------

StartDeposit(p, amt) ==
    /\ op[p].pc = "idle"
    /\ IF amt = 0
       THEN /\ response' = [response EXCEPT ![p] =
                   DepositErrorResponse(StatusBadRequest, "BadRequest")]
            /\ UNCHANGED op
       ELSE /\ op' = [op EXCEPT ![p] = [IdleOp EXCEPT !.pc = "dh_deposit",
                                                     !.kind = "deposit",
                                                     !.amount = amt]]
            /\ response' = [response EXCEPT ![p] = NoResponse]
    /\ UNCHANGED submitted
    /\ UNCHANGED chainVars

\* deposit_tokens(.., payload.amount), signed and sent.
DepositSend(p) ==
    /\ op[p].pc = "dh_deposit"
    /\ IF publicBalance[p] >= op[p].amount
       THEN /\ publicBalance' = [publicBalance EXCEPT ![p] = @ - op[p].amount]
            /\ pendingBalance' = [pendingBalance EXCEPT ![p] = @ + op[p].amount]
            /\ op' = [op EXCEPT ![p].pc = "dh_apply_build"]
            /\ UNCHANGED response
       ELSE /\ Finish(p, DepositErrorResponse(StatusInternalServerError,
                                              "TransactionRejected"))
            /\ UNCHANGED <<publicBalance, pendingBalance>>
    /\ UNCHANGED <<availableBalance, decryptableAvailable, proofAccounts, submitted>>

DepositApplyBuild(p) ==
    /\ op[p].pc = "dh_apply_build"
    /\ op' = [op EXCEPT ![p].pc = "dh_apply_send",
                        ![p].new_decryptable = NewDecryptableAvailable(p)]
    /\ UNCHANGED <<submitted, response>>
    /\ UNCHANGED chainVars

DepositApplySend(p) ==
    /\ op[p].pc = "dh_apply_send"
    /\ ApplyOnChain(p, op[p].new_decryptable)
    /\ Finish(p, DepositOkResponse(p))
    /\ UNCHANGED <<publicBalance, proofAccounts, submitted>>

DepositRpcFailure(p) ==
    /\ op[p].kind = "deposit"
    /\ op[p].pc # "idle"
    /\ Finish(p, DepositErrorResponse(StatusInternalServerError, "RpcTransport"))
    /\ UNCHANGED submitted
    /\ UNCHANGED chainVars

\* ------------------------------------------------------------------------
\* Database: tables users and wallets, and the requests that write them.
\* Every SQL statement runs on the pool outside a transaction and is one
\* atomic step.  SQL NULL is Null; LOWER() is Lower.
\* ------------------------------------------------------------------------

MaxRequests == 3

Requests == 1..MaxRequests

TelegramIds == {"111", "222"}

Null == "NULL"

Usernames == {"alice", "Alice", "bob"}

\* Usernames presented at login (or none), and usernames transfers are addressed to.
LoginUsernames == {"alice", "Alice", Null}

ReservedUsernames == {"alice", "bob"}

\* LOWER(telegram_username)
Lower(username) == IF username = "Alice" THEN "alice" ELSE username

\* format!("tg:{}", telegram_user_id)
UserIdStr(telegram_user_id) == <<"tg", telegram_user_id>>

\* format!("tg:reserved:{}", username.to_lowercase())
ReservedUserIdStr(username) == <<"tg:reserved", Lower(username)>>

UserRow(user_id, telegram_user_id, telegram_username) ==
    [user_id |-> user_id, telegram_user_id |-> telegram_user_id,
     telegram_username |-> telegram_username]

\* Keypair::new(): a public key no wallet row holds yet.
FreshPubkey == <<"pubkey", Len(wallets) + 1>>

NewRequest ==
    [pc |-> "new", kind |-> "none", telegram_user_id |-> Null, username |-> Null,
     claimed_reserved_wallet |-> FALSE, was_new_wallet |-> FALSE, status |-> 0]

DbIdle ==
    /\ users = <<>>
    /\ wallets = <<>>
    /\ req = [r \in Requests |-> NewRequest]

\* The unique index ON CONFLICT (telegram_user_id) relies on; NULLs never conflict.
UniqueTelegramUserId(rows) ==
    \A i, j \in DOMAIN rows :
        (i # j /\ rows[i].telegram_user_id # Null) =>
            rows[i].telegram_user_id # rows[j].telegram_user_id

\* Mutant: the claim does not require telegram_user_id IS NULL.
ClaimMatches_AnyOwner(rows, username) ==
    {i \in DOMAIN rows :
        /\ rows[i].telegram_username # Null
        /\ Lower(rows[i].telegram_username) = Lower(username)}

\* WHERE LOWER(telegram_username) = LOWER($6) AND telegram_user_id IS NULL
ClaimMatches(rows, username) ==
    {i \in DOMAIN rows :
        /\ rows[i].telegram_username # Null
        /\ Lower(rows[i].telegram_username) = Lower(username)
        /\ rows[i].telegram_user_id = Null}

\* wallets w JOIN users u ON w.user_id = u.id WHERE LOWER(u.telegram_username) = LOWER($1)
WalletsByUsername(username) ==
    {w \in DOMAIN wallets :
        /\ users[wallets[w].user_id].telegram_username # Null
        /\ Lower(users[wallets[w].user_id].telegram_username) = Lower(username)}

WalletsOfUser(i) == {w \in DOMAIN wallets : wallets[w].user_id = i}

RowsOfTelegramUser(rows, telegram_user_id) ==
    {i \in DOMAIN rows : rows[i].telegram_user_id = telegram_user_id}

\* Requests are numbered in the order they arrive.
Arrives(r) == req[r].pc = "new" /\ \A q \in Requests : q < r => req[q].pc # "new"

FinishRequest(r, status) ==
    req' = [req EXCEPT ![r].pc = "done", ![r].status = status]

\* POST /api/auth/telegram: the verified identity is handed to upsert_telegram_user.
StartLogin(r, telegram_user_id, username) ==
    /\ Arrives(r)
    /\ req' = [req EXCEPT ![r] = [NewRequest EXCEPT
                  !.pc = IF username = Null THEN "upsert" ELSE "claim",
                  !.kind = "login", !.telegram_user_id = telegram_user_id,
                  !.username = username]]
    /\ UNCHANGED <<users, wallets>>

\* upsert_telegram_user: the UPDATE that claims a reserved user.  A statement
\* that would break the unique index fails as a whole and `?` returns the error.
LoginClaim(r) ==
    /\ req[r].pc = "claim"
    /\ LET matched == ClaimMatches(users, req[r].username)
           updated == [i \in DOMAIN users |->
                          IF i \in matched
                          THEN [users[i] EXCEPT
                                   !.user_id = UserIdStr(req[r].telegram_user_id),
                                   !.telegram_user_id = req[r].telegram_user_id]
                          ELSE users[i]]
       IN  IF matched = {}
           THEN /\ req' = [req EXCEPT ![r].pc = "upsert"]
                /\ UNCHANGED users
           ELSE IF ~UniqueTelegramUserId(updated)
                THEN /\ FinishRequest(r, StatusInternalServerError)
                     /\ UNCHANGED users
                ELSE /\ users' = updated
                     /\ req' = [req EXCEPT ![r].pc = "claim_select"]
    /\ UNCHANGED wallets

\* SELECT * FROM users WHERE telegram_user_id = $1 (fetch_one), then
\* claimed_reserved_wallet: true.
LoginClaimSelect(r) ==
    /\ req[r].pc = "claim_select"
    /\ IF RowsOfTelegramUser(users, req[r].telegram_user_id) = {}
       THEN FinishRequest(r, StatusInternalServerError)
       ELSE req' = [req EXCEPT ![r].pc = "done", ![r].status = StatusOk,
                                ![r].claimed_reserved_wallet = TRUE]
    /\ UNCHANGED <<users, wallets>>

\* INSERT INTO users .. ON CONFLICT (telegram_user_id) DO UPDATE SET
\* telegram_username = EXCLUDED.telegram_username, ..; claimed_reserved_wallet: false.
LoginUpsert(r) ==
    /\ req[r].pc = "upsert"
    /\ LET existing == RowsOfTelegramUser(users, req[r].telegram_user_id)
       IN  users' = IF existing = {}
                    THEN Append(users, UserRow(UserIdStr(req[r].telegram_user_id),
                                               req[r].telegram_user_id, req[r].username))
                    ELSE [i \in DOMAIN users |->
                             IF i \in existing
                             THEN [users[i] EXCEPT !.telegram_username = req[r].username]
                             ELSE users[i]]
    /\ FinishRequest(r, StatusOk)
    /\ UNCHANGED wallets

\* Username-addressed transfer: get_or_create_recipient_wallet looks the
\* recipient's wallet up by username.
StartReserve(r, username) ==
    /\ Arrives(r)
    /\ req' = [req EXCEPT ![r] = [NewRequest EXCEPT !.pc = "lookup", !.kind = "reserve",
                                                   !.username = username]]
    /\ UNCHANGED <<users, wallets>>

ReserveLookup(r) ==
    /\ req[r].pc = "lookup"
    /\ IF WalletsByUsername(req[r].username) # {}
       THEN FinishRequest(r, StatusOk)
       ELSE req' = [req EXCEPT ![r].pc = "get_or_create"]
    /\ UNCHANGED <<users, wallets>>

\* get_or_create_wallet_for_username: a second lookup
ReserveGetOrCreate(r) ==
    /\ req[r].pc = "get_or_create"
    /\ IF WalletsByUsername(req[r].username) # {}
       THEN req' = [req EXCEPT ![r].pc = "done", ![r].status = StatusOk,
                                ![r].was_new_wallet = TRUE]
       ELSE req' = [req EXCEPT ![r].pc = "create"]
    /\ UNCHANGED <<users, wallets>>

\* create_reserved_wallet_for_username: one statement inserts the user row
\* (telegram_user_id NULL) and its wallet row.
ReserveCreate(r) ==
    /\ req[r].pc = "create"
    /\ users' = Append(users, UserRow(ReservedUserIdStr(req[r].username), Null,
                                      req[r].username))
    /\ wallets' = Append(wallets, [user_id |-> Len(users) + 1, pubkey |-> FreshPubkey])
    /\ req' = [req EXCEPT ![r].pc = "done", ![r].status = StatusOk,
                          ![r].was_new_wallet = TRUE]

\* Whether a bearer token for telegram_user_id has been issued (a login succeeded).
HasToken(telegram_user_id) ==
    \E q \in Requests :
        /\ req[q].kind = "login" /\ req[q].telegram_user_id = telegram_user_id
        /\ req[q].pc = "done" /\ req[q].status = StatusOk

\* POST /api/wallets: create_wallet_for_telegram_user upserts the caller's
\* user row and inserts a wallet row for it, in one statement.
CreateWallet(r, telegram_user_id) ==
    /\ Arrives(r)
    /\ HasToken(telegram_user_id)
    /\ LET existing == RowsOfTelegramUser(users, telegram_user_id)
           row == IF existing = {} THEN Len(users) + 1 ELSE CHOOSE i \in existing : TRUE
       IN  /\ users' = IF existing = {}
                       THEN Append(users, UserRow(UserIdStr(telegram_user_id),
                                                  telegram_user_id, Null))
                       ELSE [users EXCEPT ![row].user_id = UserIdStr(telegram_user_id)]
           /\ wallets' = Append(wallets, [user_id |-> row, pubkey |-> FreshPubkey])
    /\ req' = [req EXCEPT ![r] = [NewRequest EXCEPT !.pc = "done", !.kind = "create_wallet",
                                                   !.telegram_user_id = telegram_user_id,
                                                   !.status = StatusOk]]

\* ------------------------------------------------------------------------
\* Request validation of the wallet-scoped handlers (balance, airdrop,
\* deposit, withdraw, pubkey-addressed transfer).  A call is described by
\* what the handler finds: the row the wallet query returns, the mint's
\* extensions, the recipient's associated token account and whether the
\* RPC node answers.  Its result is the HTTP status and the transactions
\* the handler handed to the RPC node, in order.
\* ------------------------------------------------------------------------

StatusNotFound == 404

\* What table wallets holds for the address in the path: no row, a row of
\* another user, a row of the authenticated user.
WalletLookups == {"missing", "other_user", "owned"}

MintExtensions == {"ConfidentialTransferMint", "ConfidentialMintBurn"}

\* The recipient's associated token account: absent, a Token-2022 account
\* without the ConfidentialTransferAccount extension, or one carrying it.
RecipientAtas == {"none", "plain", "confidential"}

\* The RPC node answers every call, fails the handler's first read, or
\* fails the handler's first send_and_confirm.
RpcBehaviours == {"ok", "read_fails", "send_fails"}

RequestAmounts == {0} \cup Amounts

NoCall == [endpoint |-> "none", wallet |-> "missing", amount |-> 0, mint |-> {},
           recipient_ata |-> "none", rpc |-> "ok", status |-> 0, submitted |-> <<>>]

\* The transactions of a confidential transfer whose available balance
\* already covers the amount.
CallTransferLabels == <<"A", "B", "C", "D", "E">>

\* get_user_wallet_by_pubkey: the join on w.pubkey and u.user_id returns a
\* row only for the caller's own wallet; an absent row is an error, so
\* Ok(None) is never returned.
get_user_wallet_by_pubkey(wallet) ==
    IF wallet = "owned" THEN "Some" ELSE "Err"

\* let Some(wallet) = get_user_wallet_by_pubkey(..).await? else not_found:
\* the error goes through From<anyhow::Error>, the else branch answers 404.
\* StatusOk stands for "the handler goes on".
WalletStatus(wallet) ==
    LET found == get_user_wallet_by_pubkey(wallet)
    IN  IF found = "Err" THEN StatusInternalServerError
        ELSE IF found = "None" THEN StatusNotFound
        ELSE StatusOk

Answer(status, sent) == [status |-> status, submitted |-> sent]

\* The handler's chain work: reads, then one send_and_confirm per label.
Sent(labels, rpc) ==
    IF rpc = "read_fails" THEN Answer(StatusInternalServerError, <<>>)
    ELSE IF rpc = "send_fails" THEN Answer(StatusInternalServerError, <<Head(labels)>>)
    ELSE Answer(StatusOk, labels)

\* The mint's confidential extensions, as the handler sees them.
get_enabled_confidential_features(mint) == mint \cap MintExtensions

\* ata_has_confidential_transfer_extension: TRUE when the account still
\* requires the extension.
ata_has_confidential_transfer_extension_SkipsCheck(recipient_ata) == FALSE

ata_has_confidential_transfer_extension(recipient_ata) ==
    recipient_ata # "confidential"

\* GET /api/wallets/{address}/balance
BalanceHandler(wallet, recipient_ata, rpc) ==
    IF WalletStatus(wallet) # StatusOk THEN Answer(WalletStatus(wallet), <<>>)
    ELSE IF rpc = "read_fails" THEN Answer(StatusInternalServerError, <<>>)
    ELSE IF recipient_ata = "none" THEN Answer(StatusNotFound, <<>>)
    ELSE Answer(StatusOk, <<>>)

\* POST /api/wallets/{address}/airdrop
AirdropHandler(wallet, rpc) ==
    IF WalletStatus(wallet) # StatusOk THEN Answer(WalletStatus(wallet), <<>>)
    ELSE IF rpc = "ok" THEN Answer(StatusOk, <<"Airdrop">>)
    ELSE Answer(StatusInternalServerError, <<"Airdrop">>)

\* POST /api/wallets/{address}/deposit
DepositHandler(wallet, amount, rpc) ==
    IF WalletStatus(wallet) # StatusOk THEN Answer(WalletStatus(wallet), <<>>)
    ELSE IF amount = 0 THEN Answer(StatusBadRequest, <<>>)
    ELSE Sent(<<"Deposit", "Apply Pending Balance">>, rpc)

\* The transactions of a withdrawal: the apply, then withdraw_tokens' two
\* proof accounts, the withdraw instruction and the two closes.
WithdrawLabels ==
    <<"Apply Pending Balance", "create equality proof", "create range proof",
      "withdraw", "close equality proof", "close range proof">>

\* POST /api/wallets/{address}/withdraw: the amount is not inspected before
\* the apply transaction is sent.
WithdrawHandler(wallet, amount, rpc) ==
    IF WalletStatus(wallet) # StatusOk THEN Answer(WalletStatus(wallet), <<>>)
    ELSE Sent(WithdrawLabels, rpc)

\* POST /api/transfers: the mint and the recipient's account are validated,
\* the amount is not.
TransferHandler(wallet, mint, recipient_ata, amount, rpc) ==
    IF WalletStatus(wallet) # StatusOk THEN Answer(WalletStatus(wallet), <<>>)
    ELSE IF rpc = "read_fails" THEN Answer(StatusInternalServerError, <<>>)
    ELSE IF "ConfidentialTransferMint" \notin get_enabled_confidential_features(mint)
         THEN Answer(StatusBadRequest, <<>>)
    ELSE IF recipient_ata = "none" THEN Answer(StatusBadRequest, <<>>)
    ELSE IF ata_has_confidential_transfer_extension(recipient_ata)
         THEN Answer(StatusBadRequest, <<>>)
    ELSE Sent(CallTransferLabels, rpc)

\* execute_confidential_mint: one send_transaction(.., "confidential mint")
\* for each of the four transactions build_confidential_mint_transactions
\* returns.
ConfidentialMintLabels ==
    <<"confidential mint", "confidential mint", "confidential mint", "confidential mint">>

\* POST /api/tokens/{address}/mint.  validate_recipient_wallet returns an
\* anyhow error for an unknown wallet, which `?` turns into a 500.  The
\* confidential path is taken when the mint has any confidential feature;
\* build_confidential_mint_transactions then requires ConfidentialMintBurn
\* ("Mint does not support confidential mint/burn").
MintHandler(wallet, mint, recipient_ata, rpc) ==
    IF wallet = "missing" THEN Answer(StatusInternalServerError, <<>>)
    ELSE IF rpc = "read_fails" THEN Answer(StatusInternalServerError, <<>>)
    ELSE LET confidential_features == get_enabled_confidential_features(mint)
             has_confidential_features == confidential_features # {}
             setup == IF /\ has_confidential_features
                         /\ ata_has_confidential_transfer_extension(recipient_ata)
                      THEN <<"token account setup">>
                      ELSE <<>>
         IN  IF has_confidential_features
             THEN IF setup # <<>> /\ rpc = "send_fails"
                  THEN Answer(StatusInternalServerError, setup)
                  ELSE IF "ConfidentialMintBurn" \notin mint
                       THEN Answer(StatusInternalServerError, setup)
                       ELSE Sent(setup \o ConfidentialMintLabels, rpc)
             ELSE Sent(<<"standard mint">>, rpc)

Called(endpoint, wallet, amount, mint, recipient_ata, rpc, answer) ==
    call' = [endpoint |-> endpoint, wallet |-> wallet, amount |-> amount, mint |-> mint,
             recipient_ata |-> recipient_ata, rpc |-> rpc,
             status |-> answer.status, submitted |-> answer.submitted]

CallBalance ==
    \E wallet \in WalletLookups, ata \in RecipientAtas, rpc \in RpcBehaviours \ {"send_fails"} :
        Called("balance", wallet, 0, {}, ata, rpc, BalanceHandler(wallet, ata, rpc))

CallAirdrop ==
    \E wallet \in WalletLookups, rpc \in RpcBehaviours \ {"read_fails"} :
        Called("airdrop", wallet, 0, {}, "none", rpc, AirdropHandler(wallet, rpc))

CallDeposit ==
    \E wallet \in WalletLookups, amount \in RequestAmounts, rpc \in RpcBehaviours :
        Called("deposit", wallet, amount, {}, "none", rpc, DepositHandler(wallet, amount, rpc))

CallWithdraw ==
    \E wallet \in WalletLookups, amount \in RequestAmounts, rpc \in RpcBehaviours :
        Called("withdraw", wallet, amount, {}, "none", rpc, WithdrawHandler(wallet, amount, rpc))

CallTransfer ==
    \E wallet \in WalletLookups, amount \in RequestAmounts, mint \in SUBSET MintExtensions,
       ata \in RecipientAtas, rpc \in RpcBehaviours :
        Called("transfer", wallet, amount, mint, ata, rpc,
               TransferHandler(wallet, mint, ata, amount, rpc))

CallMint ==
    \E wallet \in WalletLookups \ {"other_user"}, amount \in Amounts,
       mint \in SUBSET MintExtensions, ata \in RecipientAtas, rpc \in RpcBehaviours :
        Called("mint", wallet, amount, mint, ata, rpc, MintHandler(wallet, mint, ata, rpc))

\* ------------------------------------------------------------------------
\* Key derivation (solana/confidential_keys.rs, solana/signature_signer.rs,
\* solana/utils.rs).  An Ed25519 signature is modelled by what it commits
\* to, the signing key and the signed bytes; the SDK's KDF (SHA3-512 of the
\* signature) by the signature it hashes.  Both are injective in the model:
\* collisions are outside it.
\* ------------------------------------------------------------------------

SignatureLen == 64

DerivationKeypairs == {"K1", "K2"}

Mints == {"mintA", "mintB"}

\* get_associated_token_address_with_program_id(owner, mint, token-2022)
AssociatedTokenAddress(owner, mint) == [owner |-> owner, mint |-> mint]

NoSeed == [owner |-> "none", mint |-> "none"]

\* The seeds in use: ata.to_bytes() of every (owner, mint).
Seeds == {AssociatedTokenAddress(k, m) : k \in DerivationKeypairs, m \in Mints}

\* [tag, public_seed].concat(): the bytes the SDK asks the signer to sign;
\* the empty tag gives the seed itself.
TaggedMessage(tag, seed) == [tag |-> tag, seed |-> seed]

DomainTags == {"", "ElGamalSecretKey", "AeKey"}

\* Keypair::sign_message
Ed25519Sign(keypair, message) == [signer |-> keypair, signed |-> message]

\* Signature::default()
DefaultSignature == [signer |-> "none", signed |-> TaggedMessage("", NoSeed)]

Signatures ==
    {Ed25519Sign(k, TaggedMessage(t, s)) :
        k \in DerivationKeypairs, t \in DomainTags, s \in Seeds} \cup {DefaultSignature}

\* The three Signer implementations that reach the KDF.
KeypairSigner(keypair) ==
    [kind |-> "Keypair", pubkey |-> keypair, signature |-> DefaultSignature]

PrecomputedSigner(pubkey, signature) ==
    [kind |-> "PrecomputedSigner", pubkey |-> pubkey, signature |-> signature]

SignatureSigner(pubkey, signature) ==
    [kind |-> "SignatureSigner", pubkey |-> pubkey, signature |-> signature]

Signers ==
    {KeypairSigner(k) : k \in DerivationKeypairs}
    \cup {PrecomputedSigner(k, sig) : k \in DerivationKeypairs, sig \in Signatures}
    \cup {SignatureSigner(k, sig) : k \in DerivationKeypairs, sig \in Signatures}

\* Signer::try_sign_message: a keypair signs the message, the two adapters
\* return their stored signature whatever the message.
try_sign_message(signer, message) ==
    IF signer.kind = "Keypair" THEN Ed25519Sign(signer.pubkey, message)
    ELSE signer.signature

NoKey == [ok |-> FALSE, seed_from_signature |-> DefaultSignature]

\* The SDK's new_from_signer: sign tag || public_seed, reject the default
\* signature, hash the signature into the key.
new_from_signer(tag, signer, seed) ==
    LET signature == try_sign_message(signer, TaggedMessage(tag, seed))
    IN  IF signature = DefaultSignature THEN NoKey
        ELSE [ok |-> TRUE, seed_from_signature |-> signature]

KeyDerivationFailed == [ok |-> FALSE, elgamal_keypair |-> NoKey, ae_key |-> NoKey]

\* Mutant: the AE key is derived without the seed.
from_signer_UnseededAeKey(signer, seed) ==
    LET elgamal_keypair == new_from_signer("ElGamalSecretKey", signer, seed)
        ae_key == new_from_signer("AeKey", signer, NoSeed)
    IN  IF ~elgamal_keypair.ok \/ ~ae_key.ok THEN KeyDerivationFailed
        ELSE [ok |-> TRUE, elgamal_keypair |-> elgamal_keypair, ae_key |-> ae_key]

\* ConfidentialKeys::from_signer (the same code in both modules)
from_signer(signer, seed) ==
    LET elgamal_keypair == new_from_signer("ElGamalSecretKey", signer, seed)
        ae_key == new_from_signer("AeKey", signer, seed)
    IN  IF ~elgamal_keypair.ok \/ ~ae_key.ok THEN KeyDerivationFailed
        ELSE [ok |-> TRUE, elgamal_keypair |-> elgamal_keypair, ae_key |-> ae_key]

\* signature.into(): the 64 bytes of a signature; Vec<u8> and [u8; 64] are
\* told apart by their length only.
SignatureBytes(signature) == [len |-> SignatureLen, content |-> signature]

\* Signature::from(bytes)
SignatureFrom(signature_bytes) == signature_bytes.content

\* confidential_keys.rs: ConfidentialKeys::from_signature_bytes
from_signature_bytes(wallet_pubkey, signature_bytes, seed) ==
    from_signer(PrecomputedSigner(wallet_pubkey, SignatureFrom(signature_bytes)), seed)

\* signature_signer.rs: ConfidentialKeys::from_signature_bytes
signer_from_signature_bytes(wallet_pubkey, signature_bytes, seed) ==
    from_signer(SignatureSigner(wallet_pubkey, SignatureFrom(signature_bytes)), seed)

\* Mutant: the length check compares with the length of a public key.
derive_keys_WrongLength(wallet_pubkey, signature_bytes, seed) ==
    IF signature_bytes.len # 32 THEN KeyDerivationFailed
    ELSE signer_from_signature_bytes(wallet_pubkey, signature_bytes, seed)

\* SignatureKeyDerivation::derive_keys
derive_keys(wallet_pubkey, signature_bytes, seed) ==
    IF signature_bytes.len # SignatureLen THEN KeyDerivationFailed
    ELSE signer_from_signature_bytes(wallet_pubkey, signature_bytes, seed)

\* utils.rs: confidential_keys_for_mint, for an owner who is a keypair: the
\* owner signs the ATA address itself and the keys are derived from that
\* signature through the adapter.
confidential_keys_for_mint(owner, mint) ==
    LET ata == AssociatedTokenAddress(owner, mint)
        signature == try_sign_message(KeypairSigner(owner), TaggedMessage("", ata))
    IN  derive_keys(owner, SignatureBytes(signature), ata)

\* No token account is configured yet.
NoneConfigured == [ata \in Seeds |-> KeyDerivationFailed]

NoDerivation ==
    [op |-> "none", signer |-> KeypairSigner("none"), seed |-> NoSeed,
     signature_bytes |-> SignatureBytes(DefaultSignature), keys |-> KeyDerivationFailed,
     configured |-> NoneConfigured]

Derived(name, signer, signature_bytes, seed, keys) ==
    derivation' = [op |-> name, signer |-> signer, seed |-> seed,
                   signature_bytes |-> signature_bytes, keys |-> keys,
                   configured |-> derivation.configured]

DeriveFromSigner ==
    \E signer \in Signers, seed \in Seeds :
        Derived("from_signer", signer, SignatureBytes(signer.signature), seed,
                from_signer(signer, seed))

DeriveFromSignatureBytes ==
    \E pubkey \in DerivationKeypairs, signature \in Signatures, seed \in Seeds :
        Derived("from_signature_bytes", PrecomputedSigner(pubkey, signature),
                SignatureBytes(signature), seed,
                from_signature_bytes(pubkey, SignatureBytes(signature), seed))

\* A request payload may carry a byte vector of any length.
DeriveKeys ==
    \E pubkey \in DerivationKeypairs, signature \in Signatures, seed \in Seeds,
       len \in {32, SignatureLen} :
        LET bytes == [len |-> len, content |-> signature]
        IN  Derived("derive_keys", SignatureSigner(pubkey, signature), bytes, seed,
                    derive_keys(pubkey, bytes, seed))

DeriveForMint ==
    \E owner \in DerivationKeypairs, mint \in Mints :
        LET ata == AssociatedTokenAddress(owner, mint)
        IN  Derived("confidential_keys_for_mint", KeypairSigner(owner),
                    SignatureBytes(Ed25519Sign(owner, TaggedMessage("", ata))), ata,
                    confidential_keys_for_mint(owner, mint))

\* The engine operations on a pair (owner, mint) that need the owner's
\* confidential keys: the configuration of the token account (mint handler,
\* ensure_recipient_confidential_account), get_confidential_balances,
\* apply_pending_balance, execute_proof_transactions, withdraw_tokens and
\* the destination keys of a confidential mint.
EngineOperations ==
    {"configure_account", "balance_read", "apply", "transfer", "withdraw",
     "mint_destination"}

\* Mutant: the withdrawal derives its keys from the owner's address alone.
OperationKeys_WithdrawByOwner(operation, owner, mint) ==
    IF operation = "withdraw"
    THEN LET seed == [owner |-> owner, mint |-> "none"]
             signature == try_sign_message(KeypairSigner(owner), TaggedMessage("", seed))
         IN  derive_keys(owner, SignatureBytes(signature), seed)
    ELSE confidential_keys_for_mint(owner, mint)

\* Each of them calls confidential_keys_for_mint(owner, mint) with the
\* owner's signer and the mint of the operation.
OperationKeys(operation, owner, mint) == confidential_keys_for_mint(owner, mint)

\* setup_token_account_with_keys on an account that still requires the
\* extension: ConfigureAccount records the ElGamal key and the decryptable
\* zero balance of the keys it is given.
ConfigureAccount ==
    \E owner \in DerivationKeypairs, mint \in Mints :
        LET ata == AssociatedTokenAddress(owner, mint)
            keys == OperationKeys("configure_account", owner, mint)
        IN  /\ derivation.configured[ata] = KeyDerivationFailed
            /\ derivation' =
                   [op |-> "configure_account", signer |-> KeypairSigner(owner),
                    seed |-> ata,
                    signature_bytes |->
                        SignatureBytes(Ed25519Sign(owner, TaggedMessage("", ata))),
                    keys |-> keys,
                    configured |-> [derivation.configured EXCEPT ![ata] = keys]]

\* A later operation on a configured account derives its keys again.
Operate ==
    \E operation \in EngineOperations \ {"configure_account"},
       owner \in DerivationKeypairs, mint \in Mints :
        LET ata == AssociatedTokenAddress(owner, mint)
        IN  /\ derivation.configured[ata] # KeyDerivationFailed
            /\ Derived(operation, KeypairSigner(owner),
                       SignatureBytes(Ed25519Sign(owner, TaggedMessage("", ata))), ata,
                       OperationKeys(operation, owner, mint))

\* ------------------------------------------------------------------------
\* Instruction builders (solana/tokens.rs, solana/create.rs).  A builder is
\* a function of what it is given and of what it reads from the chain; its
\* result is the instruction batch and the additional signers.
\* ------------------------------------------------------------------------

MaximumPendingBalanceCreditCounter == 65536

GlobalAuthority == "G"

\* ae_key.encrypt(amount)
AeEncrypt(ae_key, amount) == [ae_key |-> ae_key, plaintext |-> amount]

\* PubkeyValidityProofData::new(&elgamal_keypair)
PubkeyValidityProofData(elgamal_keypair) ==
    [proof |-> "PubkeyValidity", elgamal_keypair |-> elgamal_keypair]

Instruction(name, account, data) == [name |-> name, account |-> account, data |-> data]

\* configure_account(.., ProofLocation::InstructionOffset(1, proof_data)):
\* the ConfigureAccount instruction and, right after it, the proof
\* instruction its offset points to.
configure_account(ata, decryptable_balance, maximum_counter, proof_data) ==
    << Instruction("ConfigureAccount", ata,
                   [decryptable_zero_balance |-> decryptable_balance,
                    maximum_pending_balance_credit_counter |-> maximum_counter,
                    proof_instruction_offset |-> 1]),
       Instruction("VerifyPubkeyValidity", ata, proof_data) >>

\* Mutant: the account is configured before it is reallocated.
setup_token_account_with_keys_ConfigureFirst(fee_payer, owner, mint, ata_state, keys) ==
    LET ata == AssociatedTokenAddress(owner, mint)
        create == IF ata_state = "none"
                  THEN <<Instruction("CreateIdempotent", ata, [funding |-> fee_payer])>>
                  ELSE <<>>
    IN  IF ata_has_confidential_transfer_extension(ata_state)
        THEN create
             \o configure_account(ata, AeEncrypt(keys.ae_key, 0),
                                  MaximumPendingBalanceCreditCounter,
                                  PubkeyValidityProofData(keys.elgamal_keypair))
             \o <<Instruction("Reallocate", ata, [funding |-> fee_payer])>>
        ELSE create

\* setup_token_account_with_keys: ata_state is what get_maybe_ata returns.
setup_token_account_with_keys(fee_payer, owner, mint, ata_state, keys) ==
    LET ata == AssociatedTokenAddress(owner, mint)
        create == IF ata_state = "none"
                  THEN <<Instruction("CreateIdempotent", ata, [funding |-> fee_payer])>>
                  ELSE <<>>
    IN  IF ata_has_confidential_transfer_extension(ata_state)
        THEN create
             \o <<Instruction("Reallocate", ata, [funding |-> fee_payer])>>
             \o configure_account(ata, AeEncrypt(keys.ae_key, 0),
                                  MaximumPendingBalanceCreditCounter,
                                  PubkeyValidityProofData(keys.elgamal_keypair))
        ELSE create

\* The names of a batch, in order.
Names(instructions) == [i \in 1..Len(instructions) |-> instructions[i].name]

NoBuilt == [op |-> "none", input |-> [none |-> TRUE], instructions |-> <<>>,
            additional_signers |-> <<>>]

\* No pipeline is running.
NoPipe == [kind |-> "none", payer |-> "none", pending |-> <<>>, sent |-> <<>>,
           confirmed |-> 0, awaiting |-> FALSE, status |-> "idle",
           auditor_elgamal_pubkey_option |-> "unread"]

MaxCredits == 2

RaceWorkers == {1, 2}

IdleWorker == [pc |-> "idle", expected_pending_balance_credit_counter |-> 0,
               new_decryptable_available_balance |-> 0, round |-> 0,
               outcome |-> "none"]

\* One token account with no credit yet, and two operations not yet started.
NoRace == [pending |-> 0, pending_balance_credit_counter |-> 0, available |-> 0,
           decryptable_available_balance |-> 0,
           expected_pending_balance_credit_counter |-> 0,
           actual_pending_balance_credit_counter |-> 0,
           credits |-> 0, round |-> 0,
           worker |-> [w \in RaceWorkers |-> IdleWorker]]

BuildSetup ==
    \E fee_payer \in {GlobalAuthority} \cup DerivationKeypairs,
       owner \in DerivationKeypairs, mint \in Mints, ata_state \in RecipientAtas :
        built' = [op |-> "setup_token_account_with_keys",
                  input |-> [fee_payer |-> fee_payer, owner |-> owner, mint |-> mint,
                             ata_state |-> ata_state],
                  instructions |->
                      setup_token_account_with_keys(fee_payer, owner, mint, ata_state,
                          confidential_keys_for_mint(owner, mint)),
                  additional_signers |-> <<>>]

\* ------------------------------------------------------------------------
\* create_mint (solana/create.rs).  A string is modelled by a sequence
\* over a one-letter alphabet: only its length enters the computation.

MaxStrLen == 2

Strings == UNION {[1..n -> {"a"}] : n \in 0..MaxStrLen}

\* Lamports per byte returned by the cluster for a rent-exempt balance; 0
\* is a cluster without rent.
RentRates == {0, 1, 6960}

\* Borsh length of TokenMetadata with no additional metadata: update
\* authority and mint (32 bytes each), three length-prefixed strings, and
\* the length prefix of the empty additional_metadata vector.
get_instance_packed_len(name, symbol, uri) ==
    32 + 32 + (4 + Len(name)) + (4 + Len(symbol)) + (4 + Len(uri)) + 4

\* TokenMetadata::tlv_size_of: the generic TLV header (8-byte
\* discriminator, 4-byte length) plus the packed length.
tlv_size_of(name, symbol, uri) == 12 + get_instance_packed_len(name, symbol, uri)

ExtensionLen(extension) ==
    CASE extension = "ConfidentialTransferMint" -> 65
      [] extension = "MetadataPointer" -> 64

RECURSIVE SumExtensionLen(_)
SumExtensionLen(extensions) ==
    IF extensions = <<>> THEN 0
    ELSE 4 + ExtensionLen(Head(extensions)) + SumExtensionLen(Tail(extensions))

\* ExtensionType::try_calculate_account_len::<Mint>: the base account
\* length, the account-type byte, and a 4-byte header per extension.
try_calculate_account_len(extensions) == 165 + 1 + SumExtensionLen(extensions)

base_space == try_calculate_account_len(<<"ConfidentialTransferMint", "MetadataPointer">>)

\* Size of the mint account once Token-2022 has written the metadata
\* extension: a 4-byte extension header plus the packed metadata.
MintLenWithMetadata(name, symbol, uri) ==
    base_space + 4 + get_instance_packed_len(name, symbol, uri)

get_minimum_balance_for_rent_exemption(rate, space) == rate * (128 + space)

additional_rent_Reversed(rent, final_rent) == SaturatingSub(rent, final_rent)

additional_rent(rent, final_rent) == SaturatingSub(final_rent, rent)

create_mint_InitializeMintFirst(rate, fee_payer, absolute_authority, mint, name, symbol, metadata_uri) ==
    LET space == base_space
        rent == get_minimum_balance_for_rent_exemption(rate, space)
    IN  [instructions |->
             << Instruction("create_account", mint,
                            [from |-> fee_payer, lamports |-> rent, space |-> space]),
                Instruction("initialize_mint", mint, [authority |-> absolute_authority]),
                Instruction("ConfidentialTransferMint", mint, [authority |-> absolute_authority]),
                Instruction("MetadataPointer", mint, [authority |-> absolute_authority]),
                Instruction("initialize_metadata", mint,
                            [name |-> name, symbol |-> symbol, uri |-> metadata_uri]) >>,
         additional_signers |-> <<mint>>]

create_mint(rate, fee_payer, absolute_authority, mint, name, symbol, metadata_uri) ==
    LET metadata_extension_space == tlv_size_of(name, symbol, metadata_uri)
        final_space == base_space + metadata_extension_space
        space == base_space
        rent == get_minimum_balance_for_rent_exemption(rate, space)
        final_rent == get_minimum_balance_for_rent_exemption(rate, final_space)
        extra == additional_rent(rent, final_rent)
    IN  [instructions |->
             << Instruction("create_account", mint,
                            [from |-> fee_payer, lamports |-> rent, space |-> space]),
                Instruction("ConfidentialTransferMint", mint, [authority |-> absolute_authority]),
                Instruction("MetadataPointer", mint, [authority |-> absolute_authority]),
                Instruction("initialize_mint", mint, [authority |-> absolute_authority]) >>
             \o (IF extra > 0
                 THEN << Instruction("transfer", mint,
                                     [from |-> fee_payer, lamports |-> extra]) >>
                 ELSE <<>>)
             \o << Instruction("initialize_metadata", mint,
                               [name |-> name, symbol |-> symbol, uri |-> metadata_uri]) >>,
         additional_signers |->
             <<mint>> \o (IF fee_payer # absolute_authority
                          THEN <<absolute_authority>> ELSE <<>>)]

BuildCreateMint ==
    \E rate \in RentRates, fee_payer \in {GlobalAuthority, "K1"},
       absolute_authority \in {GlobalAuthority, "K1"}, mint \in Mints,
       name \in Strings, symbol \in Strings, metadata_uri \in Strings :
        LET generated == create_mint(rate, fee_payer, absolute_authority, mint,
                                     name, symbol, metadata_uri)
        IN  built' = [op |-> "create_mint",
                      input |-> [rate |-> rate, fee_payer |-> fee_payer,
                                 absolute_authority |-> absolute_authority, mint |-> mint,
                                 name |-> name, symbol |-> symbol,
                                 metadata_uri |-> metadata_uri],
                      instructions |-> generated.instructions,
                      additional_signers |-> generated.additional_signers]

\* ------------------------------------------------------------------------
\* Specification of the engine: requests of the two parties interleave; a
\* party runs one request at a time (overlapping requests on one token
\* account are the caller's responsibility).
\* ------------------------------------------------------------------------

NoScenario == [stage |-> "none", a |-> 0, b |-> 0, first |-> "none"]

NoMessage == [keys |-> <<>>, num_required_signatures |-> 0]

SignIdle ==
    /\ txMessage = NoMessage
    /\ txSignatures = <<>>
    /\ signResult = [kind |-> "none", signer |-> "none",
                     signature |-> [signer |-> "none", message |-> NoMessage],
                     pubkey |-> "none", expected |-> 0, received |-> 0]

EngineInit ==
    /\ publicBalance = [p \in Parties |-> 0]
    /\ pendingBalance = [p \in Parties |-> 0]
    /\ availableBalance = [p \in Parties |-> 0]
    /\ decryptableAvailable = [p \in Parties |-> 0]
    /\ proofAccounts = [p \in Parties |-> NoProofAccounts]
    /\ op = [p \in Parties |-> IdleOp]
    /\ submitted = [p \in Parties |-> <<>>]
    /\ response = [p \in Parties |-> NoResponse]

Init ==
    /\ EngineInit
    /\ scenario = NoScenario
    /\ SignIdle
    /\ DbIdle
    /\ call = NoCall
    /\ derivation = NoDerivation
    /\ built = NoBuilt
    /\ pipe = NoPipe
    /\ race = NoRace
    /\ cancelled = {}

\* A step of the engine leaves the scenario driver and the partial signer alone.
EngineOnly ==
    UNCHANGED <<scenario, txMessage, txSignatures, signResult, users, wallets, req, call, derivation, built,
          pipe, race, cancelled>>

Next ==
    \/ \E p \in Parties, a \in Amounts : MintTo(p, a) /\ EngineOnly
    \/ \E p \in Parties, r \in Parties, a \in Amounts : StartTransfer(p, r, a) /\ EngineOnly
    \/ \E p \in Parties : EnsureRead(p) /\ EngineOnly
    \/ \E p \in Parties : EnsureDeposit(p) /\ EngineOnly
    \/ \E p \in Parties : EnsureApplyBuild(p) /\ EngineOnly
    \/ \E p \in Parties : EnsureApplySend(p) /\ EngineOnly
    \/ \E p \in Parties : EnsureReread(p) /\ EngineOnly
    \/ \E p \in Parties : PrepareProofs(p) /\ EngineOnly
    \/ \E p \in Parties : SubmitPhase(p) /\ EngineOnly
    \/ \E p \in Parties : ConfirmPhase(p) /\ EngineOnly
    \/ \E p \in Parties : RejectPhase(p) /\ EngineOnly
    \/ \E p \in Parties : TransferRpcFailure(p) /\ EngineOnly
    \/ \E p \in Parties, a \in Amounts \cup {0} : StartDeposit(p, a) /\ EngineOnly
    \/ \E p \in Parties : DepositSend(p) /\ EngineOnly
    \/ \E p \in Parties : DepositApplyBuild(p) /\ EngineOnly
    \/ \E p \in Parties : DepositApplySend(p) /\ EngineOnly
    \/ \E p \in Parties : DepositRpcFailure(p) /\ EngineOnly

Spec == Init /\ [][Next]_vars

\* ------------------------------------------------------------------------
\* Cancellation of a transfer request.  execute_transfer of the handler
\* runs invoke_confidential_transfer inside task::spawn_blocking with
\* block_on: dropping the request future drops the JoinHandle, which
\* detaches the blocking task; the task itself runs on as before.
\* ------------------------------------------------------------------------

\* The request of p's transfer is dropped at an await point after Phase A
\* was submitted.
Cancel(p) ==
    /\ op[p].kind = "transfer"
    /\ op[p].pc # "idle"
    /\ "A" \in Range(submitted[p])
    /\ p \notin cancelled
    /\ cancelled' = cancelled \cup {p}
    /\ UNCHANGED <<publicBalance, pendingBalance, availableBalance, decryptableAvailable,
                   proofAccounts, op, submitted, response, scenario,
                   txMessage, txSignatures, signResult, users, wallets, req, call,
                   derivation, built, pipe, race>>

\* A party whose request was dropped sends no further request.
NoNewRequest == \A p \in cancelled : op[p].pc = "idle" => op'[p].pc = "idle"

CancelNext ==
    \/ Next /\ NoNewRequest
    \/ \E p \in Parties : Cancel(p)

SpecCancel == Init /\ [][CancelNext]_vars

\* ------------------------------------------------------------------------
\* Partial signer: impl PartialSign for VersionedTransaction
\* ------------------------------------------------------------------------

Keys == {"X", "Y", "Z"}

\* Signature::default(): 64 zero bytes.
ZeroSignature == [signer |-> "none", message |-> NoMessage]

\* Some non-zero signature no key of the model produced.
DummySignature == [signer |-> "dummy", message |-> NoMessage]

\* self.message.serialize(): the bytes that are signed, determined by the message.
Serialize(message) == <<message.num_required_signatures, message.keys>>

Deserialize(bytes) == [keys |-> bytes[2], num_required_signatures |-> bytes[1]]

\* signer.sign_message(bytes)
SignMessage(signer, bytes) == [signer |-> signer, message |-> Deserialize(bytes)]

\* Mutant: the signer is looked up among all keys, not the first k.
SignerPosition_AllKeys(message, public_key) ==
    LET hits == {i \in 1..Len(message.keys) : message.keys[i] = public_key}
    IN  IF hits = {} THEN 0 ELSE CHOOSE i \in hits : \A j \in hits : i <= j

\* static_account_keys().iter().take(k).position(|p| p == &public_key):
\* the first index among the first k keys, 0 for None (indices count from 1).
SignerPosition(message, public_key) ==
    LET n == Min(message.num_required_signatures, Len(message.keys))
        hits == {i \in 1..n : message.keys[i] = public_key}
    IN  IF hits = {} THEN 0 ELSE CHOOSE i \in hits : \A j \in hits : i <= j

\* Mutant: the resize clears the entries the vector already had.
Resized_Zeroed(signatures, k) == [i \in 1..k |-> ZeroSignature]

\* signatures.resize(k, Signature::default()) of a shorter vector
Resized(signatures, k) ==
    [i \in 1..k |-> IF i <= Len(signatures) THEN signatures[i] ELSE ZeroSignature]

\* Mutant: a longer vector keeps its extra entries.
Truncated_Kept(signatures, k) == signatures

\* self.signatures.truncate(k) of a longer vector
Truncated(signatures, k) == SubSeq(signatures, 1, k)

\* Mutant: extra signatures are never looked at.
HasNonZeroExtras_Ignored(signatures, k) == FALSE

\* self.signatures[k..].iter().any(|sig| *sig != Signature::default())
HasNonZeroExtras(signatures, k) ==
    \E j \in (k + 1)..Len(signatures) : signatures[j] # ZeroSignature

SignOk(signature, signatures, signer) ==
    [kind |-> "Ok", signer |-> signer, signature |-> signature, pubkey |-> "none",
     expected |-> 0, received |-> 0, signatures |-> signatures]

SignErr(kind, pubkey, expected, received, signatures, signer) ==
    [kind |-> kind, signer |-> signer, signature |-> ZeroSignature, pubkey |-> pubkey,
     expected |-> expected, received |-> received, signatures |-> signatures]

\* Mutant: the vector is resized before the signer is looked up.
partial_sign_ResizeFirst(message, signatures, signer) ==
    LET k == message.num_required_signatures
        idx == SignerPosition(message, signer)
        sized == IF Len(signatures) < k THEN Resized(signatures, k) ELSE signatures
        signature == SignMessage(signer, Serialize(message))
    IN  IF idx = 0
        THEN SignErr("SignerNotRequired", signer, 0, 0, sized, signer)
        ELSE IF Len(signatures) > k /\ HasNonZeroExtras(signatures, k)
             THEN SignErr("TooManySignatures", "none", k, Len(signatures), signatures,
                          signer)
             ELSE SignOk(signature, [SubSeq(sized, 1, k) EXCEPT ![idx] = signature],
                         signer)

\* Mutant: signing starts from an all-zero vector of length k.
partial_sign_ClearsOthers(message, signatures, signer) ==
    LET k == message.num_required_signatures
        idx == SignerPosition(message, signer)
        signature == SignMessage(signer, Serialize(message))
    IN  IF idx = 0
        THEN SignErr("SignerNotRequired", signer, 0, 0, signatures, signer)
        ELSE IF Len(signatures) > k /\ HasNonZeroExtras(signatures, k)
             THEN SignErr("TooManySignatures", "none", k, Len(signatures), signatures,
                          signer)
             ELSE SignOk(signature, [Resized(<<>>, k) EXCEPT ![idx] = signature],
                         signer)

\* Mutant: the signature count is checked before the signer is looked up.
partial_sign_CountFirst(message, signatures, signer) ==
    LET k == message.num_required_signatures
        idx == SignerPosition(message, signer)
        n == Len(signatures)
        sized == IF n < k THEN Resized(signatures, k)
                 ELSE IF n > k THEN Truncated(signatures, k) ELSE signatures
        signature == SignMessage(signer, Serialize(message))
    IN  IF n > k /\ HasNonZeroExtras(signatures, k)
        THEN SignErr("TooManySignatures", "none", k, n, signatures, signer)
        ELSE IF idx = 0
             THEN SignErr("SignerNotRequired", signer, 0, 0, signatures, signer)
             ELSE SignOk(signature, [sized EXCEPT ![idx] = signature], signer)

\* partial_sign: the result and the signatures vector it leaves behind.
partial_sign(message, signatures, signer) ==
    LET required_signature_count == message.num_required_signatures
        public_key == signer
        idx == SignerPosition(message, public_key)
        n == Len(signatures)
        sized == IF n < required_signature_count
                 THEN Resized(signatures, required_signature_count)
                 ELSE IF n > required_signature_count
                      THEN Truncated(signatures, required_signature_count)
                      ELSE signatures
        signature == SignMessage(signer, Serialize(message))
    IN  IF idx = 0
        THEN SignErr("SignerNotRequired", public_key, 0, 0, signatures, signer)
        ELSE IF /\ n > required_signature_count
                /\ HasNonZeroExtras(signatures, required_signature_count)
             THEN SignErr("TooManySignatures", "none", required_signature_count, n,
                          signatures, signer)
             ELSE SignOk(signature, [sized EXCEPT ![idx] = signature], signer)

\* A call tx.partial_sign(&signer) on the transaction.
PartialSign(signer) ==
    LET r == partial_sign(txMessage, txSignatures, signer)
    IN  /\ txSignatures' = r.signatures
        /\ signResult' = [kind |-> r.kind, signer |-> r.signer,
                          signature |-> r.signature, pubkey |-> r.pubkey,
                          expected |-> r.expected, received |-> r.received]
        /\ UNCHANGED txMessage

\* Sequences of distinct keys, of length 1..Cardinality(Keys).
KeyLists ==
    {ks \in UNION {[1..n -> Keys] : n \in 1..Cardinality(Keys)} :
        \A i, j \in DOMAIN ks : i # j => ks[i] # ks[j]}

Messages ==
    {[keys |-> ks, num_required_signatures |-> k] :
        ks \in KeyLists, k \in 1..Cardinality(Keys)} 

NoSignResult == [kind |-> "none", signer |-> "none", signature |-> ZeroSignature,
                 pubkey |-> "none", expected |-> 0, received |-> 0]

SignInit ==
    /\ EngineInit
    /\ scenario = NoScenario
    /\ txMessage \in {m \in Messages : m.num_required_signatures <= Len(m.keys)}
    /\ txSignatures \in UNION {[1..n -> {ZeroSignature, DummySignature}] : n \in 0..MaxSigs}
    /\ signResult = NoSignResult
    /\ DbIdle
    /\ call = NoCall
    /\ derivation = NoDerivation
    /\ built = NoBuilt
    /\ pipe = NoPipe
    /\ race = NoRace
    /\ cancelled = {}

SignNext ==
    \E signer \in Keys :
        /\ PartialSign(signer)
        /\ UNCHANGED <<publicBalance, pendingBalance, availableBalance,
                       decryptableAvailable, proofAccounts, op, submitted, response,
                       scenario, users, wallets, req, call, derivation, built,
          pipe, race, cancelled>>

SpecSign == SignInit /\ [][SignNext]_vars

\* ------------------------------------------------------------------------
\* Round trip: a is minted to a first party, which deposits and applies it
\* (deposit handler) and transfers b <= a to the second party
\* (invoke_confidential_transfer); the second party then applies its pending
\* balance through the reconciler of a transfer of its own.  A failed request
\* ends the scenario.
\* ------------------------------------------------------------------------

RoundTripSecond == CHOOSE p \in Parties : p # scenario.first

RoundTripInit ==
    /\ EngineInit
    /\ SignIdle
    /\ DbIdle
    /\ call = NoCall
    /\ derivation = NoDerivation
    /\ built = NoBuilt
    /\ pipe = NoPipe
    /\ race = NoRace
    /\ cancelled = {}
    /\ \E f \in Parties, a \in Amounts, b \in Amounts :
           /\ b <= a
           /\ scenario = [stage |-> "mint", a |-> a, b |-> b, first |-> f]

RoundTripStage(stage) == scenario' = [scenario EXCEPT !.stage = stage]

RoundTripFrame == UNCHANGED <<txMessage, txSignatures, signResult, users, wallets, req, call, derivation, built,
          pipe, race, cancelled>>

RoundTripNext ==
    \/ /\ scenario.stage = "mint"
       /\ MintTo(scenario.first, scenario.a)
       /\ RoundTripStage("deposit") /\ RoundTripFrame
    \/ /\ scenario.stage = "deposit"
       /\ StartDeposit(scenario.first, scenario.a)
       /\ UNCHANGED scenario /\ RoundTripFrame
    \/ /\ scenario.stage = "deposit"
       /\ DepositSend(scenario.first)
       /\ UNCHANGED scenario /\ RoundTripFrame
    \/ /\ scenario.stage = "deposit"
       /\ DepositApplyBuild(scenario.first)
       /\ UNCHANGED scenario /\ RoundTripFrame
    \/ /\ scenario.stage = "deposit"
       /\ DepositApplySend(scenario.first)
       /\ RoundTripStage("transfer") /\ RoundTripFrame
    \/ /\ scenario.stage = "deposit"
       /\ DepositRpcFailure(scenario.first)
       /\ RoundTripStage("aborted") /\ RoundTripFrame
    \/ /\ scenario.stage = "transfer"
       /\ StartTransfer(scenario.first, RoundTripSecond, scenario.b)
       /\ UNCHANGED scenario /\ RoundTripFrame
    \/ /\ scenario.stage = "transfer"
       /\ EnsureRead(scenario.first)
       /\ UNCHANGED scenario /\ RoundTripFrame
    \/ /\ scenario.stage = "transfer"
       /\ PrepareProofs(scenario.first)
       /\ UNCHANGED scenario /\ RoundTripFrame
    \/ /\ scenario.stage = "transfer"
       /\ SubmitPhase(scenario.first)
       /\ UNCHANGED scenario /\ RoundTripFrame
    \/ /\ scenario.stage = "transfer"
       /\ ConfirmPhase(scenario.first)
       /\ RoundTripStage(IF op[scenario.first].phase = Len(TransferPhases)
                         THEN "apply" ELSE "transfer")
       /\ RoundTripFrame
    \/ /\ scenario.stage = "transfer"
       /\ TransferRpcFailure(scenario.first)
       /\ RoundTripStage("aborted") /\ RoundTripFrame
    \/ /\ scenario.stage = "apply"
       /\ StartTransfer(RoundTripSecond, scenario.first, scenario.b)
       /\ UNCHANGED scenario /\ RoundTripFrame
    \/ /\ scenario.stage = "apply"
       /\ EnsureRead(RoundTripSecond)
       /\ UNCHANGED scenario /\ RoundTripFrame
    \/ /\ scenario.stage = "apply"
       /\ EnsureApplyBuild(RoundTripSecond)
       /\ UNCHANGED scenario /\ RoundTripFrame
    \/ /\ scenario.stage = "apply"
       /\ EnsureApplySend(RoundTripSecond)
       /\ UNCHANGED scenario /\ RoundTripFrame
    \/ /\ scenario.stage = "apply"
       /\ EnsureReread(RoundTripSecond)
       /\ RoundTripStage("done") /\ RoundTripFrame
    \/ /\ scenario.stage = "apply"
       /\ TransferRpcFailure(RoundTripSecond)
       /\ RoundTripStage("aborted") /\ RoundTripFrame

SpecRoundTrip == RoundTripInit /\ [][RoundTripNext]_vars

\* ------------------------------------------------------------------------
\* Specifications of the database: logins and reservations (SpecLogin), and
\* these together with wallet creation (SpecDb).  A request slot serves one
\* request.
\* ------------------------------------------------------------------------

DbInit ==
    /\ EngineInit
    /\ scenario = NoScenario
    /\ SignIdle
    /\ DbIdle
    /\ call = NoCall
    /\ derivation = NoDerivation
    /\ built = NoBuilt
    /\ pipe = NoPipe
    /\ race = NoRace
    /\ cancelled = {}

DbOnly ==
    UNCHANGED <<publicBalance, pendingBalance, availableBalance, decryptableAvailable,
                proofAccounts, op, submitted, response, scenario,
                txMessage, txSignatures, signResult, call, derivation, built,
          pipe, race, cancelled>>

LoginNext ==
    \/ \E r \in Requests, t \in TelegramIds, u \in LoginUsernames :
           StartLogin(r, t, u) /\ DbOnly
    \/ \E r \in Requests : LoginClaim(r) /\ DbOnly
    \/ \E r \in Requests : LoginClaimSelect(r) /\ DbOnly
    \/ \E r \in Requests : LoginUpsert(r) /\ DbOnly
    \/ \E r \in Requests, u \in ReservedUsernames : StartReserve(r, u) /\ DbOnly
    \/ \E r \in Requests : ReserveLookup(r) /\ DbOnly
    \/ \E r \in Requests : ReserveGetOrCreate(r) /\ DbOnly
    \/ \E r \in Requests : ReserveCreate(r) /\ DbOnly

SpecLogin == DbInit /\ [][LoginNext]_vars

DbNext ==
    \/ \E r \in Requests, t \in TelegramIds, u \in LoginUsernames :
           StartLogin(r, t, u) /\ DbOnly
    \/ \E r \in Requests : LoginClaim(r) /\ DbOnly
    \/ \E r \in Requests : LoginClaimSelect(r) /\ DbOnly
    \/ \E r \in Requests : LoginUpsert(r) /\ DbOnly
    \/ \E r \in Requests, u \in ReservedUsernames : StartReserve(r, u) /\ DbOnly
    \/ \E r \in Requests : ReserveLookup(r) /\ DbOnly
    \/ \E r \in Requests : ReserveGetOrCreate(r) /\ DbOnly
    \/ \E r \in Requests : ReserveCreate(r) /\ DbOnly
    \/ \E r \in Requests, t \in TelegramIds : CreateWallet(r, t) /\ DbOnly

SpecDb == DbInit /\ [][DbNext]_vars

\* ------------------------------------------------------------------------
\* Specification of the wallet-scoped handlers: calls with every input.
\* ------------------------------------------------------------------------

HandlerOnly ==
    UNCHANGED <<publicBalance, pendingBalance, availableBalance, decryptableAvailable,
                proofAccounts, op, submitted, response, scenario,
                txMessage, txSignatures, signResult, users, wallets, req, derivation, built,
          pipe, race, cancelled>>

HandlerNext ==
    \/ CallBalance /\ HandlerOnly
    \/ CallAirdrop /\ HandlerOnly
    \/ CallDeposit /\ HandlerOnly
    \/ CallWithdraw /\ HandlerOnly
    \/ CallTransfer /\ HandlerOnly
    \/ CallMint /\ HandlerOnly

SpecHandlers == Init /\ [][HandlerNext]_vars

\* ------------------------------------------------------------------------
\* Specification of the key derivation: every entry point with every input.
\* ------------------------------------------------------------------------

DerivationOnly ==
    UNCHANGED <<publicBalance, pendingBalance, availableBalance, decryptableAvailable,
                proofAccounts, op, submitted, response, scenario,
                txMessage, txSignatures, signResult, users, wallets, req, call, built,
                pipe, race, cancelled>>

DerivationNext ==
    \/ DeriveFromSigner /\ DerivationOnly
    \/ DeriveFromSignatureBytes /\ DerivationOnly
    \/ DeriveKeys /\ DerivationOnly
    \/ DeriveForMint /\ DerivationOnly

SpecKeys == Init /\ [][DerivationNext]_vars

\* Specification of the operations on configured accounts.
OperationNext ==
    \/ ConfigureAccount /\ DerivationOnly
    \/ Operate /\ DerivationOnly

SpecOperations == Init /\ [][OperationNext]_vars

\* ------------------------------------------------------------------------
\* Specification of the builders: every builder with every input.
\* ------------------------------------------------------------------------

BuilderOnly ==
    UNCHANGED <<publicBalance, pendingBalance, availableBalance, decryptableAvailable,
                proofAccounts, op, submitted, response, scenario,
                txMessage, txSignatures, signResult, users, wallets, req, call,
                derivation, pipe, race, cancelled>>


\* ------------------------------------------------------------------------
\* Pipelines: the transactions of a confidential mint
\* (solana/mint.rs, handlers/tokens/mint.rs), of a transfer
\* (solana/transfer.rs) and of a withdraw (handlers/wallets/withdraw.rs,
\* solana/withdraw.rs), instruction by instruction, and their submission
\* one after the other.
\* ------------------------------------------------------------------------

\* The token account of an owner.
TokenAccount(owner) ==
    IF owner = "O" THEN "ataO" ELSE IF owner = "R" THEN "ataR" ELSE "ataG"

\* An instruction: the account it acts on, who funds it (create_account),
\* the context-state authority it names, the lamport destination (close)
\* and the keys that must sign it.
Ix(name, account, funder, authority, destination, signers) ==
    [name |-> name, account |-> account, funder |-> funder, authority |-> authority,
     destination |-> destination, signers |-> signers]

\* get_zk_proof_context_state_account_creation_instructions: create_account
\* funded by the fee payer, and the verify instruction naming the authority.
CreateProofAccountIx(fee_payer, account) ==
    Ix("create_account", account, fee_payer, "none", "none", {fee_payer, account})

VerifyProofIx(proof, account, authority) ==
    Ix(proof, account, "none", authority, "none", {})

close_context_state(account, authority, destination) ==
    Ix("close_context_state", account, "none", authority, destination, {authority})

\* A transaction to be built: how it is signed is "build_transaction"
\* (partial_sign by the fee payer, then by each additional signer) or
\* "new_signed_with_payer" (signed by every listed signer at once).
PendingTransaction(label, instructions, additional_signers, signing) ==
    [label |-> label, instructions |-> instructions,
     additional_signers |-> additional_signers, signing |-> signing]

\* Mutant: the proof accounts are closed in a transaction of their own.
build_confidential_mint_transactions_CloseSeparately(payer, destination_account, range_ctx, equality_ctx, ciphertext_ctx) ==
    << PendingTransaction("A",
           << CreateProofAccountIx(payer, range_ctx),
              CreateProofAccountIx(payer, equality_ctx),
              CreateProofAccountIx(payer, ciphertext_ctx) >>,
           <<range_ctx, equality_ctx, ciphertext_ctx>>, "build_transaction"),
       PendingTransaction("B",
           << VerifyProofIx("VerifyRange", range_ctx, payer) >>,
           <<>>, "build_transaction"),
       PendingTransaction("C",
           << VerifyProofIx("VerifyEquality", equality_ctx, payer),
              VerifyProofIx("VerifyCiphertextValidity", ciphertext_ctx, payer) >>,
           <<>>, "build_transaction"),
       PendingTransaction("D",
           << Ix("confidential_mint", destination_account, "none", payer, "none", {payer}) >>,
           <<>>, "build_transaction"),
       PendingTransaction("E",
           << close_context_state(equality_ctx, payer, payer),
              close_context_state(ciphertext_ctx, payer, payer),
              close_context_state(range_ctx, payer, payer) >>,
           <<>>, "build_transaction") >>

\* build_confidential_mint_transactions: the four pending transactions.
build_confidential_mint_transactions(payer, destination_account, range_ctx, equality_ctx, ciphertext_ctx) ==
    LET destination_for_refund == payer
    IN  << PendingTransaction("A",
               << CreateProofAccountIx(payer, range_ctx),
                  CreateProofAccountIx(payer, equality_ctx),
                  CreateProofAccountIx(payer, ciphertext_ctx) >>,
               <<range_ctx, equality_ctx, ciphertext_ctx>>, "build_transaction"),
           PendingTransaction("B",
               << VerifyProofIx("VerifyRange", range_ctx, payer) >>,
               <<>>, "build_transaction"),
           PendingTransaction("C",
               << VerifyProofIx("VerifyEquality", equality_ctx, payer),
                  VerifyProofIx("VerifyCiphertextValidity", ciphertext_ctx, payer) >>,
               <<>>, "build_transaction"),
           PendingTransaction("D",
               << Ix("confidential_mint", destination_account, "none", payer, "none",
                     {payer}),
                  close_context_state(equality_ctx, payer, destination_for_refund),
                  close_context_state(ciphertext_ctx, payer, destination_for_refund),
                  close_context_state(range_ctx, payer, destination_for_refund) >>,
               <<>>, "build_transaction") >>

\* build_close_proof_accounts_ixs: authority and destination are the sender.
build_close_proof_accounts_ixs(sender, range_ctx, equality_ctx, ciphertext_ctx) ==
    LET context_state_authority == sender
        destination == sender
    IN  << close_context_state(equality_ctx, context_state_authority, destination),
           close_context_state(ciphertext_ctx, context_state_authority, destination),
           close_context_state(range_ctx, context_state_authority, destination) >>

\* The five transactions of invoke_confidential_transfer: tx1..tx3 of
\* execute_proof_transactions_with_keys, the transfer, and the close.
TransferTransactions(sender, range_ctx, equality_ctx, ciphertext_ctx) ==
    LET context_state_authority == sender
    IN  << PendingTransaction("A",
               << CreateProofAccountIx(sender, range_ctx),
                  CreateProofAccountIx(sender, equality_ctx),
                  CreateProofAccountIx(sender, ciphertext_ctx) >>,
               <<sender, range_ctx, equality_ctx, ciphertext_ctx>>,
               "new_signed_with_payer"),
           PendingTransaction("B",
               << VerifyProofIx("VerifyRange", range_ctx, context_state_authority) >>,
               <<sender>>, "new_signed_with_payer"),
           PendingTransaction("C",
               << VerifyProofIx("VerifyEquality", equality_ctx, context_state_authority),
                  VerifyProofIx("VerifyCiphertextValidity", ciphertext_ctx,
                                context_state_authority) >>,
               <<sender>>, "new_signed_with_payer"),
           PendingTransaction("D",
               << Ix("transfer", TokenAccount(sender), "none", sender, "none",
                     {sender}) >>,
               <<sender>>, "new_signed_with_payer"),
           PendingTransaction("E",
               build_close_proof_accounts_ixs(sender, range_ctx, equality_ctx,
                                              ciphertext_ctx),
               <<sender>>, "new_signed_with_payer") >>

\* Mutant: the withdraw is sent before the range proof account exists.
withdraw_tokens_with_keys_WithdrawEarly(withdrawer, equality_ctx, range_ctx) ==
    << PendingTransaction("create equality proof",
           << CreateProofAccountIx(withdrawer, equality_ctx),
              VerifyProofIx("VerifyEquality", equality_ctx, withdrawer) >>,
           <<withdrawer, equality_ctx>>, "new_signed_with_payer"),
       PendingTransaction("withdraw",
           << Ix("withdraw", TokenAccount(withdrawer), "none", withdrawer, "none",
                 {withdrawer}) >>,
           <<withdrawer>>, "new_signed_with_payer"),
       PendingTransaction("create range proof",
           << CreateProofAccountIx(withdrawer, range_ctx) >>,
           <<withdrawer, range_ctx>>, "new_signed_with_payer"),
       PendingTransaction("create range proof",
           << VerifyProofIx("VerifyRange", range_ctx, withdrawer) >>,
           <<withdrawer>>, "new_signed_with_payer"),
       PendingTransaction("close equality proof",
           << close_context_state(equality_ctx, withdrawer, TokenAccount(withdrawer)) >>,
           <<withdrawer>>, "new_signed_with_payer"),
       PendingTransaction("close range proof",
           << close_context_state(range_ctx, withdrawer, TokenAccount(withdrawer)) >>,
           <<withdrawer>>, "new_signed_with_payer") >>

\* withdraw_tokens_with_keys: the calls of the token client, each of which
\* signs with the payer (the withdrawer) and the given keypairs and sends
\* before it returns.  The equality proof account is created and verified
\* in one transaction, the range proof account in two (split creation).
\* Both close calls name the withdrawer's token account as the lamport
\* destination.
withdraw_tokens_with_keys(withdrawer, equality_ctx, range_ctx) ==
    LET recipient_associated_token_address == TokenAccount(withdrawer)
        context_state_authority == withdrawer
    IN  << PendingTransaction("create equality proof",
               << CreateProofAccountIx(withdrawer, equality_ctx),
                  VerifyProofIx("VerifyEquality", equality_ctx, context_state_authority) >>,
               <<withdrawer, equality_ctx>>, "new_signed_with_payer"),
           PendingTransaction("create range proof",
               << CreateProofAccountIx(withdrawer, range_ctx) >>,
               <<withdrawer, range_ctx>>, "new_signed_with_payer"),
           PendingTransaction("create range proof",
               << VerifyProofIx("VerifyRange", range_ctx, context_state_authority) >>,
               <<withdrawer>>, "new_signed_with_payer"),
           PendingTransaction("withdraw",
               << Ix("withdraw", recipient_associated_token_address, "none", withdrawer,
                     "none", {withdrawer}) >>,
               <<withdrawer>>, "new_signed_with_payer"),
           PendingTransaction("close equality proof",
               << close_context_state(equality_ctx, context_state_authority,
                                      recipient_associated_token_address) >>,
               <<context_state_authority>>, "new_signed_with_payer"),
           PendingTransaction("close range proof",
               << close_context_state(range_ctx, context_state_authority,
                                      recipient_associated_token_address) >>,
               <<context_state_authority>>, "new_signed_with_payer") >>

\* The withdraw handler: the apply-pending transaction, built by
\* build_transaction for the owner, then withdraw_tokens.
WithdrawTransactions(owner, equality_ctx, range_ctx) ==
    << PendingTransaction("Apply Pending Balance",
           << Ix("apply_pending_balance", TokenAccount(owner), "none", owner, "none",
                 {owner}) >>,
           <<>>, "build_transaction") >>
    \o withdraw_tokens_with_keys(owner, equality_ctx, range_ctx)

\* The order of keys the model sorts signer keys by (account keys of a
\* compiled message are ordered by their bytes).
KeyOrder == <<"G", "O", "R", "X", "Y", "Z">>

SortKeys(keys) == SelectSeq(KeyOrder, LAMBDA key : key \in keys)

\* Message::try_compile: the fee payer first, then the other signers of
\* the instructions.  Only the signer keys of the message are modelled.
try_compile(fee_payer, instructions) ==
    LET signer_keys == UNION {instructions[i].signers : i \in 1..Len(instructions)}
        keys == <<fee_payer>> \o SortKeys(signer_keys \ {fee_payer})
    IN  [keys |-> keys, num_required_signatures |-> Len(keys)]

\* The loop over the additional signers: a failed partial_sign is logged
\* and the vector is left as it was.
RECURSIVE SignEach(_, _, _)
SignEach(message, signatures, signers) ==
    IF signers = <<>> THEN signatures
    ELSE SignEach(message, partial_sign(message, signatures, Head(signers)).signatures,
                  Tail(signers))

\* Mutant: only the fee payer signs.
build_transaction_FeePayerOnly(instructions, fee_payer, additional_signers) ==
    LET message == try_compile(fee_payer, instructions)
    IN  [ok |-> partial_sign(message, <<>>, fee_payer).kind = "Ok",
         message |-> message,
         signatures |-> partial_sign(message, <<>>, fee_payer).signatures]

\* Mutant: a failed partial_sign of an additional signer is an error.
build_transaction_AbortsOnFailure(instructions, fee_payer, additional_signers) ==
    LET message == try_compile(fee_payer, instructions)
        transaction == partial_sign(message, <<>>, fee_payer).signatures
    IN  [ok |-> \A i \in 1..Len(additional_signers) :
                   SignerPosition(message, additional_signers[i]) # 0,
         message |-> message,
         signatures |-> SignEach(message, transaction, additional_signers)]

\* build_transaction: build_transaction_with_signers (empty signature
\* vector, partial_sign by the fee payer), then the additional signers.
build_transaction(instructions, fee_payer, additional_signers) ==
    LET message == try_compile(fee_payer, instructions)
        transaction == partial_sign(message, <<>>, fee_payer)
    IN  [ok |-> transaction.kind = "Ok",
         message |-> message,
         signatures |-> SignEach(message, transaction.signatures, additional_signers)]

\* build_transaction on one instruction that requires the keys `required`
\* to sign, for a fee payer and a list of additional signers.
BuildTransaction ==
    \E fee_payer \in {GlobalAuthority, "X"}, required \in SUBSET Keys,
       additional_signers \in {ks \in KeyLists : Len(ks) <= 2} \cup {<<>>} :
        LET instructions == << Ix("instruction", "account", "none", "none", "none",
                                  required) >>
        IN  built' = [op |-> "build_transaction",
                      input |-> [fee_payer |-> fee_payer, required |-> required],
                      instructions |-> instructions,
                      additional_signers |-> additional_signers,
                      transaction |-> build_transaction(instructions, fee_payer,
                                                        additional_signers)]

\* Transaction::new_signed_with_payer: every listed keypair signs its slot.
new_signed_with_payer(instructions, payer, signing_keypairs) ==
    LET message == try_compile(payer, instructions)
    IN  [message |-> message,
         signatures |->
             [i \in 1..message.num_required_signatures |->
                 IF message.keys[i] \in Range(signing_keypairs)
                 THEN SignMessage(message.keys[i], Serialize(message))
                 ELSE ZeroSignature]]

\* The transaction built for a pending transaction of the pipeline.
BuiltTransaction(payer, pending) ==
    LET transaction ==
            IF pending.signing = "build_transaction"
            THEN build_transaction(pending.instructions, payer, pending.additional_signers)
            ELSE new_signed_with_payer(pending.instructions, payer,
                                       pending.additional_signers)
    IN  [label |-> pending.label, instructions |-> pending.instructions,
         message |-> transaction.message, signatures |-> transaction.signatures]

\* Signature verification of the cluster: every required slot holds the
\* signature of its key over the message.
FullySigned(transaction) ==
    \A i \in 1..transaction.message.num_required_signatures :
        transaction.signatures[i]
            = SignMessage(transaction.message.keys[i], Serialize(transaction.message))

\* Three fresh keypairs (Keypair::new()).
FreshKeypairs ==
    {ks \in [1..3 -> Keys] : \A i, j \in 1..3 : i # j => ks[i] # ks[j]}

Running(kind, payer, pending) ==
    [kind |-> kind, payer |-> payer, pending |-> pending, sent |-> <<>>,
     confirmed |-> 0, awaiting |-> FALSE, status |-> "running",
     auditor_elgamal_pubkey_option |-> "unread"]

\* execute_confidential_mint: the global authority pays and signs.
StartConfidentialMint(destination, ctx) ==
    /\ pipe.status # "running"
    /\ pipe' = Running("mint", GlobalAuthority,
                       build_confidential_mint_transactions(
                           GlobalAuthority, TokenAccount(destination),
                           ctx[1], ctx[2], ctx[3]))

\* The auditor key of the mint's ConfidentialTransferMint extension.
AuditorOptions == {"None", "Some"}

\* invoke_confidential_transfer after the balance was found sufficient.
\* execute_proof_transactions_with_keys reads the mint's auditor key and
\* returns "No Auditor ElGamal pubkey" when there is none: no transaction
\* is built.
StartTransferPipeline(sender, ctx, auditor_elgamal_pubkey_option) ==
    /\ pipe.status # "running"
    /\ pipe' = IF auditor_elgamal_pubkey_option = "None"
               THEN [Running("transfer", sender, <<>>) EXCEPT
                        !.status = "failed",
                        !.auditor_elgamal_pubkey_option = auditor_elgamal_pubkey_option]
               ELSE [Running("transfer", sender,
                             TransferTransactions(sender, ctx[1], ctx[2], ctx[3])) EXCEPT
                        !.auditor_elgamal_pubkey_option = auditor_elgamal_pubkey_option]

\* The withdraw handler for a wallet of the caller.
StartWithdrawPipeline(owner, ctx) ==
    /\ pipe.status # "running"
    /\ pipe' = Running("withdraw", owner, WithdrawTransactions(owner, ctx[1], ctx[2]))

\* send_and_confirm_transaction of the next transaction is called.
PipeSend ==
    /\ pipe.status = "running"
    /\ ~pipe.awaiting
    /\ pipe' = [pipe EXCEPT
                  !.sent = Append(@, BuiltTransaction(pipe.payer,
                                                     pipe.pending[pipe.confirmed + 1])),
                  !.awaiting = TRUE]

\* It returns Ok: the loop goes on, or the operation is complete.
PipeConfirm ==
    /\ pipe.status = "running"
    /\ pipe.awaiting
    /\ FullySigned(pipe.sent[Len(pipe.sent)])
    /\ pipe' = [pipe EXCEPT
                  !.confirmed = @ + 1,
                  !.awaiting = FALSE,
                  !.status = IF pipe.confirmed + 1 = Len(pipe.pending)
                             THEN "ok" ELSE "running"]

\* It returns an error, which `?` propagates: nothing further is sent.
PipeReject ==
    /\ pipe.status = "running"
    /\ pipe.awaiting
    /\ pipe' = [pipe EXCEPT !.awaiting = FALSE, !.status = "failed"]

\* An RPC read before the next transaction is sent fails (blockhash).
PipeRpcFailure ==
    /\ pipe.status = "running"
    /\ ~pipe.awaiting
    /\ pipe' = [pipe EXCEPT !.status = "failed"]

PipeOnly ==
    UNCHANGED <<publicBalance, pendingBalance, availableBalance, decryptableAvailable,
                proofAccounts, op, submitted, response, scenario,
                txMessage, txSignatures, signResult, users, wallets, req, call,
                derivation, built, race, cancelled>>

PipeNext ==
    \/ \E destination \in Parties, ctx \in FreshKeypairs :
           StartConfidentialMint(destination, ctx) /\ PipeOnly
    \/ \E sender \in Parties, ctx \in FreshKeypairs, auditor \in AuditorOptions :
           StartTransferPipeline(sender, ctx, auditor) /\ PipeOnly
    \/ \E owner \in Parties, ctx \in FreshKeypairs :
           StartWithdrawPipeline(owner, ctx) /\ PipeOnly
    \/ PipeSend /\ PipeOnly
    \/ PipeConfirm /\ PipeOnly
    \/ PipeReject /\ PipeOnly
    \/ PipeRpcFailure /\ PipeOnly

SpecPipelines == Init /\ [][PipeNext]_vars

BuilderNext ==
    \/ BuildSetup /\ BuilderOnly
    \/ BuildCreateMint /\ BuilderOnly
    \/ BuildTransaction /\ BuilderOnly

SpecBuilders == Init /\ [][BuilderNext]_vars



\* ------------------------------------------------------------------------
\* Two operations applying the pending balance of one token account
\* (apply_pending_balance_with_keys, then send_and_confirm_transaction).
\* Nothing in the engine serializes operations on one account.
\* ------------------------------------------------------------------------

\* Mutant: the expected counter is the one the account recorded at its
\* last apply, not the one read with the balances.
RaceRead_RecordedCounter(w) ==
    /\ race.worker[w].pc = "idle"
    /\ race' = [race EXCEPT
                  !.worker[w] =
                      [pc |-> "built",
                       expected_pending_balance_credit_counter |->
                           race.actual_pending_balance_credit_counter,
                       new_decryptable_available_balance |->
                           race.decryptable_available_balance + race.pending,
                       round |-> race.round,
                       outcome |-> "none"]]

\* apply_pending_balance_with_keys: one read of the account gives the
\* expected pending-balance credit counter and the new decryptable
\* available balance the instruction will carry.
RaceRead(w) ==
    /\ race.worker[w].pc = "idle"
    /\ race' = [race EXCEPT
                  !.worker[w] =
                      [pc |-> "built",
                       expected_pending_balance_credit_counter |->
                           race.pending_balance_credit_counter,
                       new_decryptable_available_balance |->
                           race.decryptable_available_balance + race.pending,
                       round |-> race.round,
                       outcome |-> "none"]]

\* The token program executes ApplyPendingBalance: it adds the pending
\* balance it holds to the available balance, records the expected and the
\* actual credit counter, stores the decryptable balance of the
\* instruction and resets the pending balance and its counter.  It does
\* not compare the expected counter with the actual one.
RaceSend(w) ==
    /\ race.worker[w].pc = "built"
    /\ race' = [race EXCEPT
                  !.available = @ + race.pending,
                  !.pending = 0,
                  !.actual_pending_balance_credit_counter =
                      race.pending_balance_credit_counter,
                  !.expected_pending_balance_credit_counter =
                      race.worker[w].expected_pending_balance_credit_counter,
                  !.decryptable_available_balance =
                      race.worker[w].new_decryptable_available_balance,
                  !.pending_balance_credit_counter = 0,
                  !.round = @ + 1,
                  !.worker[w].pc = "done",
                  !.worker[w].outcome = "ok"]

\* send_and_confirm_transaction fails in transport: `?` returns the error.
RaceRpcFailure(w) ==
    /\ race.worker[w].pc = "built"
    /\ race' = [race EXCEPT !.worker[w].pc = "done", !.worker[w].outcome = "failed"]

\* A deposit or an incoming transfer credits the pending balance.
RaceCredit(amount) ==
    /\ race.credits < MaxCredits
    /\ race' = [race EXCEPT !.pending = @ + amount,
                            !.pending_balance_credit_counter = @ + 1,
                            !.credits = @ + 1]

\* The caller of a finished operation sends another request.
RaceAgain(w) ==
    /\ race.worker[w].pc = "done"
    /\ race.round < MaxCredits
    /\ race' = [race EXCEPT !.worker[w] = IdleWorker]

RaceOnly ==
    UNCHANGED <<publicBalance, pendingBalance, availableBalance, decryptableAvailable,
                proofAccounts, op, submitted, response, scenario,
                txMessage, txSignatures, signResult, users, wallets, req, call,
                derivation, built, pipe, cancelled>>

RaceNext ==
    \/ \E w \in RaceWorkers : RaceRead(w) /\ RaceOnly
    \/ \E w \in RaceWorkers : RaceSend(w) /\ RaceOnly
    \/ \E w \in RaceWorkers : RaceRpcFailure(w) /\ RaceOnly
    \/ \E amount \in Amounts : RaceCredit(amount) /\ RaceOnly
    \/ \E w \in RaceWorkers : RaceAgain(w) /\ RaceOnly

SpecRace == Init /\ [][RaceNext]_vars

\* ------------------------------------------------------------------------
\* Properties
\* ------------------------------------------------------------------------

IsPrefix(s, t) == Len(s) <= Len(t) /\ \A i \in 1..Len(s) : s[i] = t[i]

TransferEnded(p) == response[p].kind = "transfer" /\ response[p].status # 0

\* C1: the five phase transactions of a transfer are submitted in the order
\* A, B, C, D, E, and a phase is submitted only when the signatures of all
\* phases before it have been confirmed and are held by the orchestrator.
C1_PhasesInOrder ==
    \A p \in Parties :
        /\ IsPrefix(submitted[p], <<"A", "B", "C", "D", "E">>)
        /\ op[p].kind = "transfer" =>
              /\ Len(submitted[p]) - Len(op[p].signatures) \in {0, 1}
              /\ op[p].pc = "phase_send" => Len(op[p].signatures) = Len(submitted[p])
              /\ \A i \in 1..Len(op[p].signatures) :
                     op[p].signatures[i] = [signer |-> p, tx |-> submitted[p][i]]

C1_Witness ==
    \E p \in Parties :
        /\ submitted[p] = <<"A", "B", "C", "D", "E">>
        /\ response[p].kind = "transfer" /\ response[p].status = 200

\* C2 (as claimed): when Phase A has been confirmed and Phase B, C or D then
\* fails, Phase E has been submitted by the time the error is returned.
C2_CloseAttemptedOnFailure ==
    [][\A p \in Parties :
          ( /\ op[p].pc = "phase_wait"
            /\ submitted[p][Len(submitted[p])] \in {"B", "C", "D"}
            /\ response'[p].status \notin {0, 200} )
          => "E" \in Range(submitted'[p])]_vars

\* C3 (as claimed): when a transfer has ended after Phase A was confirmed, each
\* of its proof context accounts either does not exist or is owned by the
\* ZK-proof program and can be closed by the orchestrator (the sender).
C3_ProofAccountsClosedOrClosable ==
    \A p \in Parties :
        (TransferEnded(p) /\ Len(submitted[p]) >= 2) =>
            \A k \in ProofKinds :
                \/ ~proofAccounts[p][k].exists
                \/ /\ proofAccounts[p][k].owner = "ZkElGamalProof"
                   /\ ClosableBy(proofAccounts[p][k], p)

\* C4: when the reconciler has returned success for (owner, amount), a read
\* of the owner's confidential balances yields available >= amount.
C4_EnsuredBalanceSuffices ==
    \A p \in Parties :
        (op[p].kind = "transfer" /\ op[p].pc = "prepare") =>
            decryptableAvailable[p] >= op[p].amount

C4_Witness ==
    \E p \in Parties :
        /\ op[p].kind = "transfer" /\ op[p].pc = "prepare"
        /\ op[p].deposit_amount > 0
        /\ op[p].available_balance >= op[p].amount

\* C5 (as claimed): a transfer of 100 by a sender that read available = 50
\* and pending = 0 and has no public balance is answered, unless the RPC
\* transport itself fails, with 400 InsufficientConfidentialBalance
\* {available: 50, pending: 0, required: 100}.
C5_InsufficientIsBadRequest ==
    [][\A p \in Parties :
          ( /\ op[p].kind = "transfer" /\ op[p].amount = 100
            /\ op[p].pc = "deposit"
            /\ op[p].available_balance = 50 /\ op[p].pending_balance = 0
            /\ publicBalance[p] = 0
            /\ response'[p].status # 0
            /\ response'[p].error # "RpcTransport" )
          => /\ response'[p].status = 400
             /\ response'[p].error = "InsufficientConfidentialBalance"
             /\ response'[p].detail = [available |-> 50, pending |-> 0,
                                        required |-> 100]]_vars

\* C6: value is conserved over the round trip: after a is minted to the first
\* party and deposited and applied, its available balance is a; after it
\* transfers b <= a the first party's available balance is a - b and the
\* second party holds b as pending until it applies, after which the second
\* party's available balance is b.
C6_RoundTripConservation ==
    LET f == scenario.first
        s == RoundTripSecond
        a == scenario.a
        b == scenario.b
    IN  /\ (scenario.stage = "transfer" /\ op[f].pc = "idle") =>
               /\ availableBalance[f] = a /\ decryptableAvailable[f] = a
               /\ pendingBalance[f] = 0 /\ publicBalance[f] = 0
        /\ scenario.stage \in {"apply", "done"} =>
               availableBalance[f] = a - b /\ decryptableAvailable[f] = a - b
        /\ (scenario.stage = "apply"
              /\ op[s].pc \in {"idle", "ensure_read", "apply_build", "apply_send"}) =>
               pendingBalance[s] = b /\ availableBalance[s] = 0
        /\ scenario.stage = "done" =>
               /\ availableBalance[s] = b /\ decryptableAvailable[s] = b
               /\ pendingBalance[s] = 0
               /\ op[s].available_balance = b

C6_Witness ==
    /\ scenario.stage = "done"
    /\ scenario.a = 100 /\ scenario.b = 50
    /\ availableBalance[RoundTripSecond] = 50
    /\ availableBalance[scenario.first] = 50
    /\ response[scenario.first].kind = "transfer"
    /\ response[scenario.first].status = StatusOk

\* C7: a successful transfer answers with exactly five entries, the phase
\* signatures in phase order under the five labels; a transfer that ended
\* otherwise answers with no transaction list.
C7_FiveLabelledSignatures ==
    \A p \in Parties :
        TransferEnded(p) =>
            IF response[p].status = 200
            THEN response[p].transactions =
                   << [label |-> "Create Proof Accounts",
                       signature |-> [signer |-> p, tx |-> "A"]],
                      [label |-> "Verify Proof Accounts: Range",
                       signature |-> [signer |-> p, tx |-> "B"]],
                      [label |-> "Verify Proof Accounts: Equality, Ciphertext",
                       signature |-> [signer |-> p, tx |-> "C"]],
                      [label |-> "Transfer",
                       signature |-> [signer |-> p, tx |-> "D"]],
                      [label |-> "Close Proof Accounts",
                       signature |-> [signer |-> p, tx |-> "E"]] >>
            ELSE response[p].transactions = <<>>

C7_Witness ==
    \E p \in Parties :
        /\ TransferEnded(p) /\ response[p].status = 200
        /\ Len(response[p].transactions) = 5
        /\ \E q \in Parties : TransferEnded(q) /\ response[q].status = 500


\* C8: after a successful partial_sign with signer S on a message requiring k
\* signatures, the slot of S's first position among the first k account keys
\* holds S's signature over the serialized message, and that signature is the
\* value returned.
C8_SignatureAtSignerPosition ==
    signResult.kind = "Ok" =>
        LET S == signResult.signer
            k == txMessage.num_required_signatures
            sig == [signer |-> S, message |-> txMessage]
        IN  \E i \in 1..k :
                /\ txMessage.keys[i] = S
                /\ \A j \in 1..(i - 1) : txMessage.keys[j] # S
                /\ txSignatures[i] = sig
                /\ signResult.signature = sig

C8_Witness ==
    /\ signResult.kind = "Ok"
    /\ txMessage.num_required_signatures >= 2
    /\ txMessage.keys[2] = signResult.signer
    /\ txSignatures[2] = signResult.signature
    /\ txSignatures[1] = ZeroSignature

\* C9: a partial_sign with a signer whose pubkey is not among the first k
\* account keys returns SignerNotRequired(pubkey) and leaves the signatures
\* vector as it was.
C9_SignerNotRequired ==
    [][LET s == signResult'.signer
           k == txMessage.num_required_signatures
       IN  (~ \E i \in 1..k : txMessage.keys[i] = s) =>
               /\ signResult'.kind = "SignerNotRequired"
               /\ signResult'.pubkey = s
               /\ txSignatures' = txSignatures]_vars

C9_Witness ==
    /\ signResult.kind = "SignerNotRequired"
    /\ signResult.signer \in Range(txMessage.keys)
    /\ Len(txSignatures) < txMessage.num_required_signatures

\* C10: a partial_sign by a required signer on a signatures vector of n > k
\* entries with a non-zero entry beyond the first k returns
\* TooManySignatures{expected: k, received: n} and leaves the vector as it was.
C10_TooManySignatures ==
    [][LET s == signResult'.signer
           k == txMessage.num_required_signatures
           n == Len(txSignatures)
       IN  ( /\ \E i \in 1..k : txMessage.keys[i] = s
             /\ n > k
             /\ \E j \in (k + 1)..n : txSignatures[j] # ZeroSignature )
           => /\ signResult'.kind = "TooManySignatures"
              /\ signResult'.expected = k
              /\ signResult'.received = n
              /\ txSignatures' = txSignatures]_vars

C10_Witness ==
    /\ signResult.kind = "TooManySignatures"
    /\ signResult.expected = 2
    /\ signResult.received = 3
    /\ txSignatures[1] = ZeroSignature /\ txSignatures[2] = ZeroSignature


\* C11: after every successful partial_sign the signatures vector has length
\* exactly k; the entries a shorter vector gains are zeroed signatures (but
\* for the signer's own slot), and a longer vector with all-zero extras is
\* cut to its first k entries.
C11_LengthIsRequiredCount ==
    [][signResult'.kind = "Ok" =>
          LET k == txMessage.num_required_signatures
              n == Len(txSignatures)
              s == signResult'.signer
          IN  /\ Len(txSignatures') = k
              /\ \A i \in 1..k :
                    txMessage.keys[i] # s =>
                        txSignatures'[i] = IF i <= n THEN txSignatures[i]
                                           ELSE ZeroSignature]_vars

C11_Witness ==
    /\ signResult.kind = "Ok"
    /\ txMessage.num_required_signatures = 3
    /\ Len(txSignatures) = 3
    /\ txSignatures[1] = DummySignature
    /\ txSignatures[2] = signResult.signature
    /\ txSignatures[3] = ZeroSignature

\* C12: partial signing commutes: for two signers, signing with one and then
\* the other leaves the same signatures (the message is never changed, so the
\* same transaction bytes) as signing in the opposite order, from every
\* signatures vector from which both orders succeed.
C12_PartialSignCommutes ==
    \A s1 \in Keys, s2 \in Keys :
        LET r1 == partial_sign(txMessage, txSignatures, s1)
            r12 == partial_sign(txMessage, r1.signatures, s2)
            r2 == partial_sign(txMessage, txSignatures, s2)
            r21 == partial_sign(txMessage, r2.signatures, s1)
        IN  ( /\ r1.kind = "Ok" /\ r12.kind = "Ok"
              /\ r2.kind = "Ok" /\ r21.kind = "Ok" )
            => r12.signatures = r21.signatures

C12_Witness ==
    /\ txMessage.num_required_signatures = 2
    /\ txMessage.keys[1] = "X" /\ txMessage.keys[2] = "Y"
    /\ signResult.kind = "Ok" /\ signResult.signer = "X"
    /\ txSignatures = << [signer |-> "X", message |-> txMessage],
                         [signer |-> "Y", message |-> txMessage] >>


\* C13 (as claimed): among concurrent upsert_telegram_user calls for one
\* (username, platform_user_id) pair, the call whose claim statement finds
\* the reserved record claims it, every call succeeds, at most one call
\* reports claimed_reserved_wallet = true, and the user has at most one
\* wallet row.
C13_ExactlyOneClaim ==
    [][ /\ \A r \in Requests :
              ( /\ req[r].kind = "login" /\ req[r].pc = "claim"
                /\ req'[r].pc # "claim"
                /\ ClaimMatches(users, req[r].username) # {} )
              => req'[r].pc = "claim_select"
        /\ \A r \in Requests :
              (req'[r].kind = "login" /\ req'[r].pc = "done")
              => req'[r].status = StatusOk
        /\ \A t \in TelegramIds, u \in Usernames :
              Cardinality({q \in Requests :
                              /\ req'[q].kind = "login"
                              /\ req'[q].telegram_user_id = t
                              /\ req'[q].username = u
                              /\ req'[q].claimed_reserved_wallet}) <= 1
        /\ \A i \in DOMAIN users' :
              users'[i].telegram_user_id # Null
              => Cardinality({w \in DOMAIN wallets' : wallets'[w].user_id = i}) <= 1
      ]_vars

\* C14 (as claimed): every user record owns at most one wallet record.
C14_AtMostOneWalletPerUser ==
    \A i \in DOMAIN users : Cardinality(WalletsOfUser(i)) <= 1

\* C15: a reserved record is claimed by at most one platform id:
\* telegram_user_id is written only into a row where it is NULL, by a login
\* presenting a username equal to the row's up to case, and never changes
\* afterwards; no two wallets belong to live user rows with the same
\* (telegram_user_id, username).
C15_ClaimedByAtMostOne ==
    [][ /\ \A i \in DOMAIN users :
              /\ users[i].telegram_user_id # Null
                 => users'[i].telegram_user_id = users[i].telegram_user_id
              /\ (users[i].telegram_user_id = Null /\ users'[i].telegram_user_id # Null)
                 => \E r \in Requests :
                       /\ req[r].kind = "login" /\ req[r].pc = "claim"
                       /\ req[r].telegram_user_id = users'[i].telegram_user_id
                       /\ Lower(req[r].username) = Lower(users[i].telegram_username)
        /\ \A w1 \in DOMAIN wallets', w2 \in DOMAIN wallets' :
              (w1 # w2 /\ users'[wallets'[w1].user_id].telegram_user_id # Null)
              => users'[wallets'[w1].user_id].telegram_user_id
                     # users'[wallets'[w2].user_id].telegram_user_id
      ]_vars

C15_Witness ==
    \E r1 \in Requests, r2 \in Requests :
        /\ req[r1].kind = "login" /\ req[r1].pc = "done"
        /\ req[r1].claimed_reserved_wallet
        /\ req[r2].kind = "login" /\ req[r2].pc = "done" /\ req[r2].status = StatusOk
        /\ ~req[r2].claimed_reserved_wallet
        /\ req[r1].telegram_user_id # req[r2].telegram_user_id
        /\ req[r1].username = "Alice" /\ req[r2].username = "alice"
        /\ \E w \in DOMAIN wallets :
               users[wallets[w].user_id].telegram_user_id = req[r1].telegram_user_id

\* C16 (as claimed): on balance, airdrop, deposit, withdraw and transfer, a
\* call naming a wallet that does not exist or is not the caller's is
\* answered 404 and submits no transaction.
C16_UnownedWalletNotFound ==
    (call.endpoint # "none" /\ call.wallet # "owned")
        => (call.status = StatusNotFound /\ call.submitted = <<>>)

\* C17 (as claimed): a deposit, withdraw or transfer of amount zero, on the
\* caller's own wallet, a confidential mint and a configured recipient, is
\* answered 400 and submits no transaction.
C17_ZeroAmountRejected ==
    (/\ call.endpoint \in {"deposit", "withdraw", "transfer"}
     /\ call.wallet = "owned"
     /\ call.amount = 0
     /\ call.endpoint = "transfer" =>
            ("ConfidentialTransferMint" \in call.mint /\ call.recipient_ata = "confidential"))
        => (call.status = StatusBadRequest /\ call.submitted = <<>>)

\* C18: a pubkey-addressed transfer from the caller's own wallet submits no
\* transaction when the mint lacks ConfidentialTransferMint, when the
\* recipient's token account does not exist, or when it lacks the
\* ConfidentialTransferAccount extension; it is answered 400 whenever the
\* RPC node answered the reads that establish these facts.
C18_InvalidTransferRejected ==
    (/\ call.endpoint = "transfer"
     /\ call.wallet = "owned"
     /\ \/ "ConfidentialTransferMint" \notin call.mint
        \/ call.recipient_ata = "none"
        \/ call.recipient_ata = "plain")
        => /\ call.submitted = <<>>
           /\ call.rpc # "read_fails" => call.status = StatusBadRequest

C18_Witness ==
    /\ call.endpoint = "transfer"
    /\ call.wallet = "owned"
    /\ "ConfidentialTransferMint" \in call.mint
    /\ call.recipient_ata = "plain"
    /\ call.rpc = "ok"
    /\ call.amount > 0
    /\ call.status = StatusBadRequest
    /\ call.submitted = <<>>

\* C19 (as claimed): for every signer, deriving with a different seed gives
\* different keys.
C19_AnySignerDistinctSeeds ==
    (derivation.op = "from_signer" /\ derivation.keys.ok)
        => \A seed \in Seeds \ {derivation.seed} :
               LET other == from_signer(derivation.signer, seed)
               IN  /\ other.elgamal_keypair # derivation.keys.elgamal_keypair
                   /\ other.ae_key # derivation.keys.ae_key

\* C19 (amended): the keys are a function of (signer, seed): deriving again
\* gives the same keys.  Two different seeds give different ElGamal keys
\* and different AE keys when the signer is a keypair, and through
\* confidential_keys_for_mint; with an adapter around one precomputed
\* signature every seed gives the same keys.
C19_KeysFollowSeed ==
    /\ (derivation.op = "from_signer" /\ derivation.signer.kind = "Keypair")
           => /\ derivation.keys.ok
              /\ from_signer(derivation.signer, derivation.seed) = derivation.keys
              /\ \A seed \in Seeds \ {derivation.seed} :
                     LET other == from_signer(derivation.signer, seed)
                     IN  /\ other.elgamal_keypair # derivation.keys.elgamal_keypair
                         /\ other.ae_key # derivation.keys.ae_key
    /\ derivation.op = "confidential_keys_for_mint"
           => /\ derivation.keys.ok
              /\ \A mint \in Mints \ {derivation.seed.mint} :
                     LET other == confidential_keys_for_mint(derivation.signer.pubkey, mint)
                     IN  /\ other.elgamal_keypair # derivation.keys.elgamal_keypair
                         /\ other.ae_key # derivation.keys.ae_key
    /\ (derivation.op = "from_signer" /\ derivation.signer.kind # "Keypair")
           => \A seed \in Seeds : from_signer(derivation.signer, seed) = derivation.keys

C19_Witness ==
    /\ derivation.op = "from_signer"
    /\ derivation.signer.kind = "Keypair"
    /\ derivation.seed \in Seeds
    /\ derivation.keys.ok
    /\ derivation.keys.elgamal_keypair.seed_from_signature.signed.seed = derivation.seed
    /\ derivation.keys.ae_key.seed_from_signature.signed.seed = derivation.seed

\* The signature handed to from_signature_bytes is the wallet's signature
\* over exactly the seed.
SignsSeedExactly ==
    /\ derivation.op = "from_signature_bytes"
    /\ SignatureFrom(derivation.signature_bytes)
           = Ed25519Sign(derivation.signer.pubkey, TaggedMessage("", derivation.seed))

\* C20 (as claimed): with the wallet's signature over exactly the seed,
\* from_signature_bytes yields the keys from_signer derives with the
\* wallet's in-process signer.
C20_EqualsInProcessSigner ==
    SignsSeedExactly
        => derivation.keys = from_signer(KeypairSigner(derivation.signer.pubkey), derivation.seed)

\* C20 (amended): with the wallet's signature over exactly the seed,
\* from_signature_bytes yields the keys derived from that signature: those
\* of the other adapter, and, when the seed is the wallet's own token
\* account, those confidential_keys_for_mint derives with the wallet's
\* in-process signer.
C20_EqualsSignedSeedDerivation ==
    SignsSeedExactly
        => /\ derivation.keys.ok
           /\ derivation.keys.elgamal_keypair.seed_from_signature
                  = SignatureFrom(derivation.signature_bytes)
           /\ derivation.keys.ae_key.seed_from_signature
                  = SignatureFrom(derivation.signature_bytes)
           /\ derivation.keys = derive_keys(derivation.signer.pubkey,
                                            derivation.signature_bytes, derivation.seed)
           /\ derivation.seed.owner = derivation.signer.pubkey
                  => derivation.keys = confidential_keys_for_mint(derivation.signer.pubkey,
                                                                  derivation.seed.mint)

C20_Witness ==
    /\ SignsSeedExactly
    /\ derivation.seed.owner = derivation.signer.pubkey
    /\ derivation.keys.ok
    /\ derivation.keys = confidential_keys_for_mint(derivation.signer.pubkey,
                                                    derivation.seed.mint)

\* C21: the account-setup batch is determined by the ATA's state: it starts
\* with a create-idempotent instruction iff the ATA does not exist; it
\* holds a reallocate followed by a configure-account with the
\* PubkeyValidity proof as the next instruction, an AE-encrypted zero
\* balance and a maximum pending-credit counter of 65536 iff the account
\* lacks the ConfidentialTransferAccount extension; it is empty for an
\* existing account that has the extension.
C21_SetupBatchFollowsAta ==
    built.op = "setup_token_account_with_keys" =>
        LET names == Names(built.instructions)
            n == Len(names)
            ata_state == built.input.ata_state
            keys == confidential_keys_for_mint(built.input.owner, built.input.mint)
            creates == {i \in 1..n : names[i] = "CreateIdempotent"}
            reallocates == {i \in 1..n : names[i] = "Reallocate"}
            configures == {i \in 1..n : names[i] = "ConfigureAccount"}
        IN  /\ (creates # {}) <=> (ata_state = "none")
            /\ creates \subseteq {1}
            /\ (reallocates # {}) <=> (ata_state # "confidential")
            /\ (configures # {}) <=> (ata_state # "confidential")
            /\ ata_state = "confidential" => n = 0
            /\ ata_state # "confidential" =>
                   /\ n = IF ata_state = "none" THEN 4 ELSE 3
                   /\ names[n - 2] = "Reallocate"
                   /\ names[n - 1] = "ConfigureAccount"
                   /\ names[n] = "VerifyPubkeyValidity"
                   /\ built.instructions[n - 1].data.proof_instruction_offset = 1
                   /\ built.instructions[n - 1].data.decryptable_zero_balance
                          = AeEncrypt(keys.ae_key, 0)
                   /\ built.instructions[n - 1].data.maximum_pending_balance_credit_counter
                          = 65536
                   /\ built.instructions[n].data
                          = PubkeyValidityProofData(keys.elgamal_keypair)

C21_Witness ==
    /\ built.op = "setup_token_account_with_keys"
    /\ built.input.ata_state = "none"
    /\ Names(built.instructions)
           = <<"CreateIdempotent", "Reallocate", "ConfigureAccount", "VerifyPubkeyValidity">>

\* C22: create_mint emits its instructions in the order create_account,
\* confidential-transfer-mint init, optional confidential-mint-burn init,
\* metadata-pointer init, initialize_mint, optional rent top-up transfer,
\* initialize-metadata: the batch is that list with only optional entries
\* left out, so every extension init precedes initialize_mint and the rent
\* top-up precedes initialize-metadata.
CreateMintOrder ==
    << "create_account", "ConfidentialTransferMint", "ConfidentialMintBurn",
       "MetadataPointer", "initialize_mint", "transfer", "initialize_metadata" >>

CreateMintOptional == {"ConfidentialMintBurn", "transfer"}

OrderIndex(name) == CHOOSE i \in 1..Len(CreateMintOrder) : CreateMintOrder[i] = name

TopUpLamports ==
    LET transfers == {i \in 1..Len(built.instructions) :
                          built.instructions[i].name = "transfer"}
    IN  IF transfers = {} THEN 0
        ELSE built.instructions[CHOOSE i \in transfers : TRUE].data.lamports

C23_RentTopUp ==
    built.op = "create_mint" =>
        LET rate == built.input.rate
            name == built.input.name
            symbol == built.input.symbol
            uri == built.input.metadata_uri
            created == built.instructions[1].data
        IN  /\ created.space = base_space
            /\ created.lamports = get_minimum_balance_for_rent_exemption(rate, base_space)
            /\ TopUpLamports
                   = get_minimum_balance_for_rent_exemption(
                         rate, base_space + tlv_size_of(name, symbol, uri))
                     - get_minimum_balance_for_rent_exemption(rate, base_space)
            /\ created.lamports + TopUpLamports
                   >= get_minimum_balance_for_rent_exemption(
                          rate, MintLenWithMetadata(name, symbol, uri))

C23_Witness ==
    /\ built.op = "create_mint"
    /\ built.input.rate = 6960
    /\ Len(built.input.name) = 2
    /\ Len(built.input.metadata_uri) = 1
    /\ TopUpLamports = 6960 * (92 + 2 + Len(built.input.symbol) + 1)

\* C24: a confidential mint has the phase order of a transfer (allocate
\* the three proof accounts, verify range, verify equality and
\* ciphertext validity, then the confidential-mint instruction); the three
\* close_context_state instructions are part of the Phase D transaction
\* and close exactly the accounts Phase A created; each transaction is
\* submitted only after the previous one was confirmed.
Labels(transactions) == [i \in 1..Len(transactions) |-> transactions[i].label]

AccountsOf(instructions, name) ==
    {instructions[i].account : i \in {j \in 1..Len(instructions) :
                                          instructions[j].name = name}}

SentInOrder ==
    /\ Len(pipe.sent) <= pipe.confirmed + 1
    /\ pipe.awaiting => Len(pipe.sent) = pipe.confirmed + 1
    /\ pipe.status \in {"ok", "running"} /\ ~pipe.awaiting
           => Len(pipe.sent) = pipe.confirmed
    /\ Len(pipe.sent) <= Len(pipe.pending)
    /\ \A i \in 1..Len(pipe.sent) :
           /\ pipe.sent[i].label = pipe.pending[i].label
           /\ pipe.sent[i].instructions = pipe.pending[i].instructions

C24_MintPhases ==
    pipe.kind = "mint" =>
        LET transfer == TransferTransactions("O", "X", "Y", "Z")
        IN  /\ Labels(pipe.pending) = <<"A", "B", "C", "D">>
            /\ \A i \in 1..3 :
                   Names(pipe.pending[i].instructions) = Names(transfer[i].instructions)
            /\ Names(pipe.pending[4].instructions)
                   = << "confidential_mint", "close_context_state",
                        "close_context_state", "close_context_state" >>
            /\ Cardinality(AccountsOf(pipe.pending[1].instructions, "create_account")) = 3
            /\ AccountsOf(pipe.pending[4].instructions, "close_context_state")
                   = AccountsOf(pipe.pending[1].instructions, "create_account")
            /\ SentInOrder

C24_Witness ==
    /\ pipe.kind = "mint"
    /\ pipe.status = "ok"
    /\ Labels(pipe.sent) = <<"A", "B", "C", "D">>

\* C25: every proof context account created by a transfer, a confidential
\* mint or a withdraw names the orchestrating signer as its authority, and
\* its close instruction is signed by that signer and sends the rent to
\* the account that funded the proof account.
Funder(account) ==
    LET creates == {t \in (1..Len(pipe.pending)) \X (1..3) :
                        /\ t[2] <= Len(pipe.pending[t[1]].instructions)
                        /\ pipe.pending[t[1]].instructions[t[2]].name = "create_account"
                        /\ pipe.pending[t[1]].instructions[t[2]].account = account}
        t == CHOOSE t \in creates : TRUE
    IN  pipe.pending[t[1]].instructions[t[2]].funder

C25_AuthorityAndRefund ==
    \A i \in 1..Len(pipe.sent) :
        \A j \in 1..Len(pipe.sent[i].instructions) :
            LET ix == pipe.sent[i].instructions[j]
            IN  /\ ix.name \in {"VerifyRange", "VerifyEquality", "VerifyCiphertextValidity"}
                       => ix.authority = pipe.payer
                /\ ix.name = "close_context_state"
                       => /\ ix.authority = pipe.payer
                          /\ ix.authority \in ix.signers
                          /\ ix.destination = Funder(ix.account)

\* C26: the Phase A transaction of a transfer and of a confidential mint
\* is submitted with valid signatures of the fee payer and of all three
\* fresh proof-account keypairs, whatever the order of those keypairs in
\* the signer list.
SignedBy(transaction, key) ==
    \E i \in 1..transaction.message.num_required_signatures :
        /\ i <= Len(transaction.signatures)
        /\ transaction.message.keys[i] = key
        /\ transaction.signatures[i]
               = SignMessage(key, Serialize(transaction.message))

C26_PhaseAFullySigned ==
    pipe.kind \in {"mint", "transfer"} =>
        \A i \in 1..Len(pipe.sent) :
            pipe.sent[i].label = "A" =>
                LET created == AccountsOf(pipe.sent[i].instructions, "create_account")
                IN  /\ Cardinality(created) = 3
                    /\ \A key \in {pipe.payer} \cup created : SignedBy(pipe.sent[i], key)

C26_Witness ==
    /\ pipe.kind = "mint"
    /\ pipe.pending[1].additional_signers = <<"Z", "X", "Y">>
    /\ pipe.confirmed >= 1
    /\ pipe.sent[1].label = "A"
    /\ pipe.sent[1].message.keys = <<"G", "X", "Y", "Z">>

\* C29: a withdraw submits apply pending balance, create equality proof,
\* create range proof, withdraw, close equality proof, close range proof
\* in this order, each only after the previous one succeeded.
RECURSIVE Collapse(_)
Collapse(s) ==
    IF Len(s) <= 1 THEN s
    ELSE IF s[1] = s[2] THEN Collapse(Tail(s))
         ELSE <<s[1]>> \o Collapse(Tail(s))

C29_WithdrawOrder ==
    pipe.kind = "withdraw" =>
        /\ Collapse(Labels(pipe.pending)) = WithdrawLabels
        /\ SentInOrder
        /\ IsPrefix(Collapse(Labels(pipe.sent)), WithdrawLabels)
        /\ pipe.status = "ok" => Collapse(Labels(pipe.sent)) = WithdrawLabels

C29_Witness ==
    /\ pipe.kind = "withdraw"
    /\ pipe.status = "ok"
    /\ Len(pipe.sent) = 7
    /\ Collapse(Labels(pipe.sent)) = WithdrawLabels

\* C30: one call of the balance reconciler submits no transaction when
\* the available balance it read covers the required amount, and
\* otherwise at most one deposit followed by at most one apply; a deposit
\* is submitted only when the pending balance read was 0, and its amount
\* is required - available, which is strictly positive.
ReconcileLogOk(p) ==
    LET log == op[p].reconcile
    IN  /\ [i \in 1..Len(log) |-> log[i].tx]
               \in {<<>>, <<"deposit">>, <<"apply">>, <<"deposit", "apply">>}
        /\ \A i \in 1..Len(log) :
               /\ log[i].available < log[i].required
               /\ log[i].tx = "deposit" =>
                      /\ log[i].pending = 0
                      /\ log[i].amount = log[i].required - log[i].available
                      /\ log[i].amount > 0

\* The step that sends the deposit, accepted by the token program or not.
DepositSubmissionOk(p) ==
    (op[p].pc = "deposit" /\ op'[p].pc # "deposit") =>
        /\ op[p].reconcile = <<>>
        /\ op[p].available_balance < op[p].amount
        /\ op[p].pending_balance = 0
        /\ op[p].deposit_amount = op[p].amount - op[p].available_balance
        /\ op[p].deposit_amount > 0

C30_ReconcilerTransactions ==
    [][\A p \in Parties : ReconcileLogOk(p)' /\ DepositSubmissionOk(p)]_vars

C30_Witness ==
    \E p \in Parties :
        /\ Len(op[p].reconcile) = 2
        /\ op[p].reconcile[1].tx = "deposit"
        /\ op[p].reconcile[1].available = 50
        /\ op[p].reconcile[1].amount = 50
        /\ op[p].reconcile[2].tx = "apply"
        /\ op[p].pc = "prepare"

\* C27: if a transfer is cancelled (its request is dropped) at an await
\* point after Phase A has been submitted, Phase E (the close of the proof
\* accounts) is still submitted before the operation ends.  Stated for the
\* operations whose Phase A was confirmed, so that there are accounts to
\* close.
C27_CancelledStillCloses ==
    [][\A p \in Parties :
           (/\ p \in cancelled
            /\ op[p].signatures # <<>>
            /\ op[p].pc # "idle"
            /\ op'[p].pc = "idle")
               => "E" \in Range(submitted'[p])]_vars

\* C28: when two operations on one token account both read the same
\* pending-balance credit counter before either applied, at most one of
\* their apply_pending_balance transactions succeeds; the other operation
\* ends in a failure.
C28_AtMostOneApplyPerRound ==
    \A w1, w2 \in RaceWorkers :
        LET a == race.worker[w1]
            b == race.worker[w2]
        IN  (/\ w1 # w2
             /\ a.pc = "done" /\ b.pc = "done"
             /\ a.round = b.round
             /\ a.expected_pending_balance_credit_counter
                    = b.expected_pending_balance_credit_counter
             /\ a.expected_pending_balance_credit_counter > 0)
                => ~(a.outcome = "ok" /\ b.outcome = "ok")

\* C34: a successful partial_sign with signer S at index i changes only
\* slot i: every other slot j <= k keeps the value it had before the call,
\* or is the zero signature if the extension created it; a signature
\* placed by an earlier signer therefore survives a later partial sign.
OnlySlotChanged(message, before, after, idx) ==
    \A j \in 1..message.num_required_signatures :
        j # idx => after[j] = IF j <= Len(before) THEN before[j] ELSE ZeroSignature

C34_OnlyOwnSlotChanges ==
    \A s1 \in Keys, s2 \in Keys :
        LET r1 == partial_sign(txMessage, txSignatures, s1)
            r12 == partial_sign(txMessage, r1.signatures, s2)
            i1 == SignerPosition(txMessage, s1)
            i2 == SignerPosition(txMessage, s2)
        IN  /\ r1.kind = "Ok" =>
                   OnlySlotChanged(txMessage, txSignatures, r1.signatures, i1)
            /\ (r1.kind = "Ok" /\ r12.kind = "Ok" /\ s1 # s2) =>
                   /\ OnlySlotChanged(txMessage, r1.signatures, r12.signatures, i2)
                   /\ r12.signatures[i1] = r1.signature

C34_Witness ==
    /\ txMessage.num_required_signatures = 3
    /\ txMessage.keys = <<"X", "Y", "Z">>
    /\ signResult.kind = "Ok" /\ signResult.signer = "Z"
    /\ txSignatures = << DummySignature,
                         [signer |-> "Y", message |-> txMessage],
                         [signer |-> "Z", message |-> txMessage] >>

\* C35: when the signer is not a required signer and the signatures
\* vector has a non-zero entry beyond the first k, partial_sign returns
\* SignerNotRequired: the signer is looked up before the signature count
\* is checked.
C35_SignerCheckedFirst ==
    [][LET s == signResult'.signer
           k == txMessage.num_required_signatures
           n == Len(txSignatures)
       IN  ( /\ \A i \in 1..k : txMessage.keys[i] # s
             /\ n > k
             /\ \E j \in (k + 1)..n : txSignatures[j] # ZeroSignature )
           => /\ signResult'.kind = "SignerNotRequired"
              /\ signResult'.kind # "TooManySignatures"
              /\ signResult'.pubkey = s]_vars

C35_Witness ==
    /\ signResult.kind = "SignerNotRequired"
    /\ Len(txSignatures) > txMessage.num_required_signatures
    /\ \E j \in (txMessage.num_required_signatures + 1)..Len(txSignatures) :
           txSignatures[j] # ZeroSignature

C31_CounterReadWithBalances ==
    [][\A w \in RaceWorkers :
           (race.worker[w].pc = "idle" /\ race'.worker[w].pc = "built") =>
               /\ race'.worker[w].expected_pending_balance_credit_counter
                      = race.pending_balance_credit_counter
               /\ race'.worker[w].new_decryptable_available_balance
                      = race.decryptable_available_balance + race.pending]_vars

C31_Witness ==
    \E w \in RaceWorkers :
        /\ race.worker[w].pc = "built"
        /\ race.worker[w].expected_pending_balance_credit_counter = 1
        /\ race.worker[w].new_decryptable_available_balance = 150
        /\ race.decryptable_available_balance = 100
        /\ race.pending_balance_credit_counter = 1

\* The positions of a transfer that precede the submission of tx1: the
\* reconciler, then the reads, the proof generation and the building of
\* tx1..tx3.
BeforeAllocation ==
    {"ensure_read", "deposit", "apply_build", "apply_send", "ensure_reread", "prepare"}

\* C37: in a transfer no proof context account is allocated unless all
\* three proofs have been generated and the transactions of Phases A, B
\* and C have been built and signed; a failure while reading accounts,
\* generating proofs or building them leaves no proof account on chain.
C37_NoAllocationBeforeBuilt ==
    [][\A p \in Parties :
           /\ (\E k \in ProofKinds :
                   ~proofAccounts[p][k].exists /\ proofAccounts'[p][k].exists)
                  => /\ op[p].kind = "transfer"
                     /\ op[p].pc = "phase_wait"
                     /\ op[p].phase = 1
                     /\ submitted[p] = <<"A">>
           /\ (op[p].kind = "transfer" /\ op[p].pc \in BeforeAllocation
                   /\ op'[p].pc = "idle")
                  => \A k \in ProofKinds : ~proofAccounts'[p][k].exists]_vars

C37_Witness ==
    \E p \in Parties :
        /\ op[p].pc = "idle"
        /\ response[p].kind = "transfer"
        /\ response[p].error = "RpcTransport"
        /\ submitted[p] = <<>>
        /\ \A k \in ProofKinds : ~proofAccounts[p][k].exists
        /\ \E q \in Parties \ {p} :
               /\ op[q].pc = "phase_send" /\ op[q].phase = 2
               /\ submitted[q] = <<"A">>
               /\ \A k \in ProofKinds : proofAccounts[q][k].exists

\* The transactions of a mint request that mint: all but the setup of the
\* recipient's token account.
IsMintTransaction(label) == label # "token account setup"

\* C33: the mint endpoint performs a confidential (split-proof) mint
\* exactly when the mint has the ConfidentialMintBurn extension and a
\* standard mint_to otherwise; a mint with ConfidentialTransferMint but
\* without ConfidentialMintBurn is minted with the standard path.
C33_ConfidentialMintIffMintBurn ==
    (call.endpoint = "mint" /\ call.wallet # "missing" /\ call.rpc = "ok") =>
        /\ call.status = StatusOk
        /\ SelectSeq(call.submitted, IsMintTransaction)
               = IF "ConfidentialMintBurn" \in call.mint
                 THEN ConfidentialMintLabels
                 ELSE <<"standard mint">>

\* C32: the auditor key is optional for a transfer: on a mint whose
\* ConfidentialTransferMint extension has no auditor ElGamal pubkey, the
\* proofs are generated and the five phases proceed without an auditor
\* instead of failing.
C32_TransferWithoutAuditor ==
    (pipe.kind = "transfer" /\ pipe.auditor_elgamal_pubkey_option = "None") =>
        Labels(pipe.pending) = TransferPhases

\* C38: every engine operation on a pair (owner, mint) obtains its ElGamal
\* and AE keys through the same derivation with the same seed, the
\* Token-2022 associated token account address of (owner, mint): the keys
\* an operation uses are the keys the account was configured with.
C38_OperationsUseConfiguredKeys ==
    derivation.op \in EngineOperations =>
        /\ derivation.seed \in Seeds
        /\ derivation.seed = AssociatedTokenAddress(derivation.signer.pubkey,
                                                    derivation.seed.mint)
        /\ derivation.keys.ok
        /\ derivation.keys = derivation.configured[derivation.seed]
        /\ \A other \in Seeds \ {derivation.seed} :
               derivation.keys # derivation.configured[other]

C38_Witness ==
    /\ derivation.op = "withdraw"
    /\ derivation.seed = AssociatedTokenAddress("K1", "mintA")
    /\ \A ata \in Seeds : derivation.configured[ata].ok
    /\ derivation.keys = derivation.configured[AssociatedTokenAddress("K1", "mintA")]

\* The reserved user rows of a username: telegram_user_id IS NULL and the
\* username equal up to case.
ReservedRows(username) ==
    {i \in DOMAIN users :
        /\ users[i].telegram_user_id = Null
        /\ users[i].telegram_username # Null
        /\ Lower(users[i].telegram_username) = Lower(username)}

\* C39 (as claimed): concurrent username-addressed transfers to one
\* username that has no wallet yet create at most one reserved user record
\* and one reserved wallet for that username, compared case-insensitively,
\* so that all of them send to that one wallet.
C39_OneReservedWalletPerUsername ==
    \A username \in ReservedUsernames :
        /\ Cardinality(ReservedRows(username)) <= 1
        /\ Cardinality({w \in DOMAIN wallets :
                           wallets[w].user_id \in ReservedRows(username)}) <= 1

\* C40 (as claimed): a login by a user who already has a record under
\* their platform_user_id succeeds, also when a reserved record with the
\* same username and a NULL platform_user_id was created after that user's
\* first login.
C40_ReturningLoginSucceeds ==
    [][\A r \in Requests :
           ( /\ req[r].kind = "login"
             /\ req[r].pc # "done"
             /\ req'[r].pc = "done"
             /\ RowsOfTelegramUser(users, req[r].telegram_user_id) # {} )
           => req'[r].status = StatusOk]_vars

====
